---- MODULE Spec2Model ----
(***************************************************************************)
(* Verification model of the cartolina tile server (mapproxy): resource    *)
(* catalogue (resource.cpp / resource.hpp), resource definitions           *)
(* (definition/tms*.cpp) and the TMS / surface tile producers              *)
(* (generator/*.cpp).                                                      *)
(*                                                                         *)
(* The module holds several specifications, one per subsystem.  Every      *)
(* specification owns a group of variables and keeps the other groups at   *)
(* their idle value.                                                       *)
(*   SpecDiff   Resource::changed on a running and a reloaded resource     *)
(*   SpecLoad   loadResources on a catalogue directory with includes       *)
(*   SpecRoundTrip  a definition saved with to() and read back with from() *)
(*   SpecServe  one generator answering vts / wmts file requests           *)
(*   SpecPrepare  construction and preparation of one generator over the   *)
(*              files of its resource directory, with crashes and restarts *)
(*   SpecOverview  makeSetup of generatevrtwo on a dataset size            *)
(*   SpecCreateOverview  createOverview on the tiles of one level          *)
(*   SpecTileIndex  the tile index loop of SurfaceSpheroid::prepare_impl   *)
(*   SpecDaemon  Daemon::start and Daemon::cleanup                         *)
(*   SpecDefinitionDiff  changed_impl of the tms definitions on a reload   *)
(*   SpecGenerate  the level loop of generate of generatevrtwo             *)
(*   SpecResolveRoot  resolveRoot followed by prependRoot                  *)
(*   SpecDatasetBase  buildDatasetBase: makeSetup and the base VRT sources *)
(*   SpecOverviewFair  SpecOverview with the call running to its end       *)
(*   SpecCtrl  Daemon::ctrl on one command of the control socket           *)
(***************************************************************************)
EXTENDS Integers, Sequences, FiniteSets, TLC

VARIABLES
    running,    \* diff: the resource currently served (the `o` of changed)
    wanted,     \* diff: the resource as re-read from the catalogue (`this`)
    lastDiff,   \* diff: result of the last wanted.changed(running), or "pending"
    catalogue,  \* load: the catalogue directory, file name -> list of entries
    stack,      \* load: the nested parseResources calls, innermost last
    resources,  \* load: the Resource::map being filled, id -> resource
    parsed,     \* load: the entries handed to parseResource so far, in order
    loadStatus, \* load: "loading", "ok", "failed" or "overflow"
    loadError,  \* load: the exception that left loadResources, or "none"
    rtDef,      \* round trip: the definition held by the resource being saved
    rtJson,     \* round trip: the "definition" value written by to()
    rtLoaded,   \* round trip: the definition read back by from()
    rtPhase,    \* round trip: "held", "saved" or "loaded" ("idle" elsewhere)
    svGen,      \* serve: the generator (driver, resource, tile index, ...)
    svReq,      \* serve: the request being handled
    svPc,       \* serve: position of the handler / of the deferred task
    svFlags,    \* serve: ImageFlags captured by the deferred task
    svEntered,  \* serve: the producer operation the task has entered
    svWarps,    \* serve: warper calls issued for this request
    svBlocks,   \* serve: metatile blocks processed so far
    svAbort,    \* serve: sink's aborted flag and where the build was then
    svOut,      \* serve: what the sink has been given (content or error)
    pgDriver,   \* prepare: the driver of the generator
    pgDisk,     \* prepare: the files of the resource directory, by role
    pgRevision, \* prepare: resource().revision of the running generator
    pgEnforced, \* prepare: changeEnforced() of the running generator
    pgProps,    \* prepare: properties_.revision held in memory
    pgIndex,    \* prepare: index_ is assigned (delivery index opened)
    pgReady,    \* prepare: the generator is ready
    pgPc,       \* prepare: position in the constructor or in prepare
    pgCtx,      \* prepare: the routine running, "ctor" or "prepare"
    pgCalls,    \* prepare: what each prepare() call on the running generator did
    pgHigh,     \* prepare: highest revision tileset.conf has ever recorded
    ovDs,       \* overview: size of the source dataset
    ovConfig,   \* overview: minOvrSize, tileSize, wrapx
    ovSize,     \* overview: makeSetup local size
    ovSetup,    \* overview: Setup being built by makeSetup
    ovPc,       \* overview: position in makeSetup
    covLevel,   \* createOverview: size, tile grid, tile size, background, mask type
    covBackground,\* createOverview: sources of bg.solid in the VRT
    covTile,    \* createOverview: per tile, what was warped, written and added to the VRT
    covPc,      \* createOverview: position
    tiLodRange, \* tile index: lodRange of the spheroid resource
    tiProductive,\* tile index: lod, block -> the block ancestor is productive
    tiIndex,    \* tile index: lod, block -> flags set in the tile index
    tiPos,      \* tile index: lod and block the loops of prepare_impl are at
    dmPc,       \* daemon: "starting", "running", "cleanup" or "stopped"
    dmStep,     \* daemon: next step of start or of cleanup
    dmAlive,    \* daemon: the members of Daemon that hold an object
    dmRegistry, \* daemon: generators living in the registry
    dmFailed,   \* daemon: the step of start that threw, 0 if none
    ddOld,      \* definition diff: the definition of the running resource
    ddNew,      \* definition diff: the definition as reloaded
    ddResult,   \* definition diff: result of ddNew.changed(ddOld), or "pending"
    gnLevels,   \* generate: number of overview levels of the setup
    gnBands,    \* generate: number of bands of the dataset
    gnPc,       \* generate: position in the loop of generate
    gnLevel,    \* generate: the loop index i
    gnInput,    \* generate: inputPath, the VRT the next level is warped from
    gnWarpedFrom,\* generate: per level begun, the VRT it was warped from
    gnWritten,  \* generate: the levels completely written
    gnOverviews,\* generate: per VRT, the Overview entries added to its bands
    rrThis,     \* resolveRoot: thisResource and thisGeneratorIface
    rrThat,     \* resolveRoot: thatResource and thatGeneratorIface
    rrDepth,    \* resolveRoot: thisDepth
    rrRoot,     \* resolveRoot: the ResourceRoot returned
    rrPath,     \* prependRoot: the relative path returned
    rrPc,       \* resolveRoot: position of the caller
    bsShift,    \* buildDatasetBase: *config.wrapx, the pixel overlap
    bsBands,    \* buildDatasetBase: in.bandCount()
    bsSources,  \* buildDatasetBase: the simple sources added to the output VRT
    bsPc,       \* buildDatasetBase: position
    ctCmd,      \* ctrl: the command and its arguments
    ctReply,    \* ctrl: what was written to the stream
    ctRead,     \* ctrl: the argument positions read (0-based)
    ctUpdates,  \* ctrl: update requests handed to the generators
    ctOutcome   \* ctrl: how the call ended

diffVars == <<running, wanted, lastDiff>>
loadVars == <<catalogue, stack, resources, parsed, loadStatus, loadError>>
rtVars == <<rtDef, rtJson, rtLoaded, rtPhase>>

\* the variables each specification leaves alone
svVars == <<svGen, svReq, svPc, svFlags, svEntered, svWarps, svBlocks,
           svAbort, svOut>>
pgVars == <<pgDriver, pgDisk, pgRevision, pgEnforced, pgProps, pgIndex,
           pgReady, pgPc, pgCtx, pgCalls, pgHigh>>
ovVars == <<ovDs, ovConfig, ovSize, ovSetup, ovPc>>
covVars == <<covLevel, covBackground, covTile, covPc>>
tiVars == <<tiLodRange, tiProductive, tiIndex, tiPos>>
dmVars == <<dmPc, dmStep, dmAlive, dmRegistry, dmFailed>>
ddVars == <<ddOld, ddNew, ddResult>>
gnVars == <<gnLevels, gnBands, gnPc, gnLevel, gnInput, gnWarpedFrom, gnWritten, gnOverviews>>
rrVars == <<rrThis, rrThat, rrDepth, rrRoot, rrPath, rrPc>>
bsVars == <<bsShift, bsBands, bsSources, bsPc>>
ctVars == <<ctCmd, ctReply, ctRead, ctUpdates, ctOutcome>>
notDiffVars == <<loadVars, rtVars, svVars, pgVars, ovVars, covVars, tiVars, dmVars, ddVars, gnVars, rrVars, bsVars, ctVars>>
notLoadVars == <<diffVars, rtVars, svVars, pgVars, ovVars, covVars, tiVars, dmVars, ddVars, gnVars, rrVars, bsVars, ctVars>>
notRtVars == <<diffVars, loadVars, svVars, pgVars, ovVars, covVars, tiVars, dmVars, ddVars, gnVars, rrVars, bsVars, ctVars>>
notSvVars == <<diffVars, loadVars, rtVars, pgVars, ovVars, covVars, tiVars, dmVars, ddVars, gnVars, rrVars, bsVars, ctVars>>
notPgVars == <<diffVars, loadVars, rtVars, svVars, ovVars, covVars, tiVars, dmVars, ddVars, gnVars, rrVars, bsVars, ctVars>>
notOvVars == <<diffVars, loadVars, rtVars, svVars, pgVars, covVars, tiVars, dmVars, ddVars, gnVars, rrVars, bsVars, ctVars>>
notCovVars == <<diffVars, loadVars, rtVars, svVars, pgVars, ovVars, tiVars, dmVars, ddVars, gnVars, rrVars, bsVars, ctVars>>
notTiVars == <<diffVars, loadVars, rtVars, svVars, pgVars, ovVars, covVars, dmVars, ddVars, gnVars, rrVars, bsVars, ctVars>>
notDmVars == <<diffVars, loadVars, rtVars, svVars, pgVars, ovVars, covVars, tiVars, ddVars, gnVars, rrVars, bsVars, ctVars>>
notDdVars == <<diffVars, loadVars, rtVars, svVars, pgVars, ovVars, covVars, tiVars, dmVars, gnVars, rrVars, bsVars, ctVars>>
notGnVars == <<diffVars, loadVars, rtVars, svVars, pgVars, ovVars, covVars, tiVars, dmVars, ddVars, rrVars, bsVars, ctVars>>
notRrVars == <<diffVars, loadVars, rtVars, svVars, pgVars, ovVars, covVars, tiVars, dmVars, ddVars, gnVars, bsVars, ctVars>>
notBsVars == <<diffVars, loadVars, rtVars, svVars, pgVars, ovVars, covVars, tiVars, dmVars, ddVars, gnVars, rrVars, ctVars>>
notCtVars == <<diffVars, loadVars, rtVars, svVars, pgVars, ovVars, covVars, tiVars, dmVars, ddVars, gnVars, rrVars, bsVars>>

vars == <<running, wanted, lastDiff,
          catalogue, stack, resources, parsed, loadStatus, loadError,
          rtDef, rtJson, rtLoaded, rtPhase,
          svGen, svReq, svPc, svFlags, svEntered, svWarps, svBlocks,
          svAbort, svOut,
          pgDriver, pgDisk, pgRevision, pgEnforced, pgProps, pgIndex,
          pgReady, pgPc, pgCtx, pgCalls, pgHigh,
          ovDs, ovConfig, ovSize, ovSetup, ovPc,
          covLevel, covBackground, covTile, covPc,
          tiLodRange, tiProductive, tiIndex, tiPos,
          dmPc, dmStep, dmAlive, dmRegistry, dmFailed,
          ddOld, ddNew, ddResult,
          gnLevels, gnBands, gnPc, gnLevel, gnInput, gnWarpedFrom, gnWritten, gnOverviews,
          rrThis, rrThat, rrDepth, rrRoot, rrPath, rrPc,
          bsShift, bsBands, bsSources, bsPc,
          ctCmd, ctReply, ctRead, ctUpdates, ctOutcome>>

(***************************************************************************)
(* Resource definitions (DefinitionBase and its subclasses)                *)
(***************************************************************************)

\* enum class Changed { yes, no, safely, withRevisionBump }
Changed == {"yes", "no", "safely", "withRevisionBump"}

\* Resource::Generator values registered by the drivers of the model.
Generators ==
    { [type |-> "tms",     driver |-> "tms-gdaldem"],
      [type |-> "surface", driver |-> "surface-spheroid"],
      [type |-> "geodata", driver |-> "geodata-vector"] }

\* DefinitionBase::frozenCredits(): true unless the subclass overrides it;
\* every TMS definition overrides it to false.
frozenCredits(def) == def.class # "tms-gdaldem"

\* DefinitionBase::needsRanges(): true unless the subclass overrides it;
\* the geodata definitions are the ones that do not need lod/tile ranges.
needsRanges(def) == def.class # "geodata-vector"

\* TmsCommon::changed_impl: compares the bound-layer options only.
TmsCommon_changed_impl(d, o) ==
    IF d.options # o.options THEN "safely" ELSE "no"

\* A TmsGdaldem::changed_impl that takes a change of processing for safe.
TmsGdaldem_changed_impl_processingSafe(d, o) ==
    IF d.dataset # o.dataset THEN "yes"
    ELSE IF d.processingOptions # o.processingOptions THEN "withRevisionBump"
    ELSE IF d.colorFile # o.colorFile THEN "withRevisionBump"
    ELSE IF d.resampling # o.resampling THEN "withRevisionBump"
    ELSE IF d.erodeMask # o.erodeMask THEN "withRevisionBump"
    ELSE IF d.poProgressions # o.poProgressions THEN "withRevisionBump"
    ELSE IF d.format # o.format \/ d.processing # o.processing THEN "safely"
    ELSE TmsCommon_changed_impl(d, o)

\* TmsGdaldem::changed_impl
TmsGdaldem_changed_impl(d, o) ==
    IF d.dataset # o.dataset THEN "yes"
    ELSE IF d.processing # o.processing THEN "withRevisionBump"
    ELSE IF d.processingOptions # o.processingOptions THEN "withRevisionBump"
    ELSE IF d.colorFile # o.colorFile THEN "withRevisionBump"
    ELSE IF d.resampling # o.resampling THEN "withRevisionBump"
    ELSE IF d.erodeMask # o.erodeMask THEN "withRevisionBump"
    ELSE IF d.poProgressions # o.poProgressions THEN "withRevisionBump"
    ELSE IF d.format # o.format THEN "safely"
    ELSE TmsCommon_changed_impl(d, o)

\* changed_impl of the definitions whose classes are outside the modelled
\* sources (surface, geodata): an incompatible dataset change or nothing.
Other_changed_impl(d, o) ==
    IF d.dataset # o.dataset THEN "yes"
    ELSE IF d.processing # o.processing THEN "withRevisionBump"
    ELSE IF d.format # o.format THEN "safely"
    ELSE "no"

\* TmsNormalMap::changed_impl (the TmsCommon-based definition)
TmsNormalMap_changed_impl(d, o) ==
    IF d.dataset # o.dataset THEN "yes"
    ELSE IF d.landcover # o.landcover THEN "yes"
    ELSE IF d.erodeMask # o.erodeMask THEN "withRevisionBump"
    ELSE TmsCommon_changed_impl(d, o)

\* DefinitionBase::changed: virtual dispatch on the definition's class.
Definition_changed(d, o) ==
    IF d.class = "tms-gdaldem"
    THEN TmsGdaldem_changed_impl(d, o)
    ELSE IF d.class = "tms-normalmap"
    THEN TmsNormalMap_changed_impl(d, o)
    ELSE Other_changed_impl(d, o)

\* resource::definition(generator) followed by the constructor defaults
\* (TmsGdaldem(): format jpg, erodeMask false, resampling dem).
NewDefinition(driver) ==
    [ class |-> driver, dataset |-> "dem-a", processing |-> "hillshade",
      processingOptions |-> <<>>, poProgressions |-> <<>>,
      colorFile |-> "none", format |-> "jpg", resampling |-> "dem",
      erodeMask |-> FALSE, options |-> "none" ]

(***************************************************************************)
(* Resource::changed                                                       *)
(***************************************************************************)

\* mutation of Resource_changed: credits compared whether frozen or not
Resource_changed_creditsAlwaysFrozen(r, o) ==
    IF r.id # o.id THEN "yes"
    ELSE IF r.generator # o.generator THEN "yes"
    ELSE IF needsRanges(r.definition)
            /\ (r.lodRange # o.lodRange \/ r.tileRange # o.tileRange) THEN "yes"
    ELSE IF r.credits # o.credits THEN "yes"
    ELSE LET def == Definition_changed(r.definition, o.definition) IN
         IF def # "no" THEN def
         ELSE IF o.revision # r.revision THEN "safely"
         ELSE IF r.registry # o.registry THEN "safely"
         ELSE "no"

\* mutation of Resource_changed: the registry comparison is dropped
Resource_changed_noRegistry(r, o) ==
    IF r.id # o.id THEN "yes"
    ELSE IF r.generator # o.generator THEN "yes"
    ELSE IF needsRanges(r.definition)
            /\ (r.lodRange # o.lodRange \/ r.tileRange # o.tileRange) THEN "yes"
    ELSE IF frozenCredits(r.definition) /\ r.credits # o.credits THEN "yes"
    ELSE LET def == Definition_changed(r.definition, o.definition) IN
         IF def # "no" THEN def
         ELSE IF o.revision # r.revision THEN "safely"
         ELSE IF r.credits # o.credits THEN "safely"
         ELSE "no"

\* Changed Resource::changed(const Resource &o) const
Resource_changed(r, o) ==
    IF r.id # o.id THEN "yes"
    ELSE IF r.generator # o.generator THEN "yes"
    ELSE IF needsRanges(r.definition)
            /\ (r.lodRange # o.lodRange \/ r.tileRange # o.tileRange) THEN "yes"
    ELSE IF frozenCredits(r.definition) /\ r.credits # o.credits THEN "yes"
    ELSE LET def == Definition_changed(r.definition, o.definition) IN
         IF def # "no" THEN def
         ELSE IF o.revision # r.revision THEN "safely"
         ELSE IF r.credits # o.credits THEN "safely"
         ELSE IF r.registry # o.registry THEN "safely"
         ELSE "no"

\* Largest resource revision written in a catalogue of the model.
MaxRevision == 1

ResourceIds == {"rf/g/a", "rf/g/b"}
LodRanges   == {<<0, 2>>, <<1, 2>>}
TileRanges  == {<<0, 0, 0, 0>>, <<0, 0, 1, 1>>}
CreditSets  == {{}, {"cartolina"}}
Registries  == {"system", "inline"}
Comments    == {"", "note"}
Datasets    == {"dem-a", "dem-b"}
Processings == {"hillshade", "slope"}
Formats     == {"jpg", "png"}

\* A resource as parseResource leaves it for the given generator.
BaseResource(gen) ==
    [ id |-> "rf/g/a", generator |-> gen, comment |-> "", revision |-> 0,
      credits |-> {}, lodRange |-> <<0, 2>>, tileRange |-> <<0, 0, 0, 0>>,
      registry |-> "system", definition |-> NewDefinition(gen.driver) ]

IdleDiff ==
    /\ running = "idle"
    /\ wanted = "idle"
    /\ lastDiff = "idle"

IdleLoad ==
    /\ catalogue = "idle"
    /\ stack = <<>>
    /\ resources = <<>>
    /\ parsed = <<>>
    /\ loadStatus = "idle"
    /\ loadError = "none"

IdleRt ==
    /\ rtDef = "idle"
    /\ rtJson = "idle"
    /\ rtLoaded = "idle"
    /\ rtPhase = "idle"

IdleSv ==
    /\ svGen = "idle"
    /\ svReq = "idle"
    /\ svPc = "idle"
    /\ svFlags = "idle"
    /\ svEntered = "idle"
    /\ svWarps = 0
    /\ svBlocks = 0
    /\ svAbort = "idle"
    /\ svOut = "idle"

IdlePg ==
    /\ pgDriver = "idle"
    /\ pgDisk = "idle"
    /\ pgRevision = 0
    /\ pgEnforced = FALSE
    /\ pgProps = 0
    /\ pgIndex = FALSE
    /\ pgReady = FALSE
    /\ pgPc = "idle"
    /\ pgCtx = "idle"
    /\ pgCalls = << >>
    /\ pgHigh = 0

IdleOv ==
    /\ ovDs = "idle"
    /\ ovConfig = "idle"
    /\ ovSize = "idle"
    /\ ovSetup = "idle"
    /\ ovPc = "idle"

IdleCov ==
    /\ covLevel = "idle"
    /\ covBackground = "idle"
    /\ covTile = "idle"
    /\ covPc = "idle"

IdleTi ==
    /\ tiLodRange = "idle"
    /\ tiProductive = "idle"
    /\ tiIndex = "idle"
    /\ tiPos = "idle"

IdleDm ==
    /\ dmPc = "idle"
    /\ dmStep = 0
    /\ dmAlive = {}
    /\ dmRegistry = {}
    /\ dmFailed = 0

IdleDd ==
    /\ ddOld = "idle"
    /\ ddNew = "idle"
    /\ ddResult = "idle"

IdleGn ==
    /\ gnLevels = 0
    /\ gnBands = 0
    /\ gnPc = "idle"
    /\ gnLevel = 0
    /\ gnInput = "idle"
    /\ gnWarpedFrom = << >>
    /\ gnWritten = {}
    /\ gnOverviews = "idle"

IdleRr ==
    /\ rrThis = "idle"
    /\ rrThat = "idle"
    /\ rrDepth = "idle"
    /\ rrRoot = "idle"
    /\ rrPath = "idle"
    /\ rrPc = "idle"

IdleBs ==
    /\ bsShift = 0
    /\ bsBands = 0
    /\ bsSources = << >>
    /\ bsPc = "idle"

IdleCt ==
    /\ ctCmd = "idle"
    /\ ctReply = "idle"
    /\ ctRead = {}
    /\ ctUpdates = 0
    /\ ctOutcome = "idle"

InitDiff ==
    /\ \E gen \in Generators :
          /\ running = BaseResource(gen)
          /\ wanted = BaseResource(gen)
    /\ lastDiff = "pending"
    /\ IdleLoad
    /\ IdleRt
    /\ IdleSv
    /\ IdlePg
    /\ IdleOv
    /\ IdleCov
    /\ IdleTi
    /\ IdleDm
    /\ IdleDd
    /\ IdleGn
    /\ IdleRr
    /\ IdleBs
    /\ IdleCt

\* The catalogue entry is edited on disk: one item of the resource changes.
EditId ==
    /\ \E v \in ResourceIds : wanted' = [wanted EXCEPT !.id = v]
    /\ lastDiff' = "pending"
    /\ UNCHANGED <<running, notDiffVars>>

\* A different (type, driver) selects a different definition class.
EditGenerator ==
    /\ \E g \in Generators :
          wanted' = [wanted EXCEPT !.generator = g,
                                   !.definition = NewDefinition(g.driver)]
    /\ lastDiff' = "pending"
    /\ UNCHANGED <<running, notDiffVars>>

EditRanges ==
    /\ \E l \in LodRanges, t \in TileRanges :
          wanted' = [wanted EXCEPT !.lodRange = l, !.tileRange = t]
    /\ lastDiff' = "pending"
    /\ UNCHANGED <<running, notDiffVars>>

EditCredits ==
    /\ \E c \in CreditSets : wanted' = [wanted EXCEPT !.credits = c]
    /\ lastDiff' = "pending"
    /\ UNCHANGED <<running, notDiffVars>>

EditRegistry ==
    /\ \E v \in Registries : wanted' = [wanted EXCEPT !.registry = v]
    /\ lastDiff' = "pending"
    /\ UNCHANGED <<running, notDiffVars>>

EditComment ==
    /\ \E v \in Comments : wanted' = [wanted EXCEPT !.comment = v]
    /\ lastDiff' = "pending"
    /\ UNCHANGED <<running, notDiffVars>>

EditRevision ==
    /\ \E v \in 0..MaxRevision : wanted' = [wanted EXCEPT !.revision = v]
    /\ lastDiff' = "pending"
    /\ UNCHANGED <<running, notDiffVars>>

EditDefinition ==
    /\ \E ds \in Datasets, p \in Processings, f \in Formats :
          wanted' = [wanted EXCEPT !.definition.dataset = ds,
                                   !.definition.processing = p,
                                   !.definition.format = f]
    /\ lastDiff' = "pending"
    /\ UNCHANGED <<running, notDiffVars>>

\* The reconciler compares the reloaded resource with the running one.
Compare ==
    /\ lastDiff = "pending"
    /\ lastDiff' = Resource_changed(wanted, running)
    /\ UNCHANGED <<running, wanted, notDiffVars>>

NextDiff ==
    \/ EditId
    \/ EditGenerator
    \/ EditRanges
    \/ EditCredits
    \/ EditRegistry
    \/ EditComment
    \/ EditRevision
    \/ EditDefinition
    \/ Compare

SpecDiff == InitDiff /\ [][NextDiff]_vars

(***************************************************************************)
(* Claims about Resource::changed (checked under SpecDiff)                 *)
(***************************************************************************)

SameIdentity ==
    /\ wanted.id = running.id
    /\ wanted.generator = running.generator

SameRanges ==
    /\ wanted.lodRange = running.lodRange
    /\ wanted.tileRange = running.tileRange

C1_YesCondition ==
    \/ wanted.id # running.id
    \/ wanted.generator # running.generator
    \/ /\ needsRanges(wanted.definition)
       /\ ~SameRanges
    \/ /\ wanted.credits # running.credits
       /\ frozenCredits(wanted.definition)
    \/ Definition_changed(wanted.definition, running.definition) = "yes"

\* C1: Resource::changed returns yes exactly when the ids differ, the
\* generators differ, the ranges differ and the definition needs ranges, the
\* credits differ and the definition freezes credits, or the definition's
\* own diff is yes; in every other case the result is not yes.
C1_YesExactly ==
    lastDiff # "pending" => (lastDiff = "yes" <=> C1_YesCondition)

\* C1 witness: a compare that answered yes only because frozen credits
\* changed (ids, generator, ranges and definition are equal).
C1_Witness ==
    /\ lastDiff = "yes"
    /\ SameIdentity /\ SameRanges
    /\ wanted.definition = running.definition
    /\ wanted.credits # running.credits

\* The precondition of C2: id, generator, ranges and definition are equal
\* and no frozen credits changed, so only byte-neutral items may differ.
C2_OnlyNeutralItems ==
    /\ lastDiff # "pending"
    /\ SameIdentity /\ SameRanges
    /\ wanted.definition = running.definition
    /\ ~(frozenCredits(wanted.definition) /\ wanted.credits # running.credits)

\* C2 as stated: with only byte-neutral items differing (revision equal),
\* a difference in credits, registry or comment gives safely, and no is
\* returned only when none of the three differ.
C2_Original ==
    (C2_OnlyNeutralItems /\ wanted.revision = running.revision) =>
        /\ (\/ wanted.credits # running.credits
            \/ wanted.registry # running.registry
            \/ wanted.comment # running.comment) => lastDiff = "safely"
        /\ lastDiff = "no" =>
              /\ wanted.credits = running.credits
              /\ wanted.registry = running.registry
              /\ wanted.comment = running.comment

\* C2 amended: with id, generator, ranges and definition equal and no frozen
\* credits changed, the result is safely exactly when credits, registry or
\* revision differ and no otherwise; the comment is never compared, so a
\* comment-only change returns no.
C2_SafeOrNo ==
    C2_OnlyNeutralItems =>
        lastDiff = IF \/ wanted.credits # running.credits
                      \/ wanted.registry # running.registry
                      \/ wanted.revision # running.revision
                   THEN "safely" ELSE "no"

\* C2 witness: only the comment differs and the compare answered no.
C2_Witness ==
    /\ C2_OnlyNeutralItems
    /\ wanted.comment # running.comment
    /\ wanted.credits = running.credits
    /\ wanted.registry = running.registry
    /\ lastDiff = "no"

(***************************************************************************)
(* Catalogue loader: loadResources / parseResources / parseResource        *)
(***************************************************************************)

\* The files of the catalogue directory, in the order glob(3) lists them.
RootFile == "resources.json"
FileOrder == <<"defs.json", "resources.json">>
Files == {FileOrder[i] : i \in DOMAIN FileOrder}

\* An include entry is written as {"include": <glob>}; the glob is modelled
\* by the set of catalogue files it matches.
IncludeItems == {[kind |-> "include", glob |-> g] : g \in SUBSET Files}

\* A resource entry: group/id, driver, and the form of "referenceFrames"
\* (object with ranges, or array of names).  Entry "b" names two reference
\* frames, entry "a" one.
ResourceItems ==
    {[kind |-> "resource", name |-> n, driver |-> d, form |-> f] :
        n \in {"a", "b"}, d \in {"tms-gdaldem", "geodata-vector"},
        f \in {"object", "array"}}

Items == IncludeItems \cup ResourceItems

\* A catalogue file holds a single entry or an array of entries.
FileContents ==
    {<<>>} \cup {<<a>> : a \in Items} \cup {<<a, b>> : a, b \in Items}

\* Nested parseResources calls the process stack can hold.
StackLimit == 6

\* utility::globPath: the matching files in sorted order.
RECURSIVE globFrom(_, _)
globFrom(glob, i) ==
    IF i > Len(FileOrder) THEN <<>>
    ELSE IF FileOrder[i] \in glob
         THEN <<FileOrder[i]>> \o globFrom(glob, i + 1)
         ELSE globFrom(glob, i + 1)

globPath(glob) == globFrom(glob, 1)

\* The reference frames named by an entry (keys of the object form or
\* elements of the array form).
referenceFramesOf(item) ==
    IF item.name = "a" THEN <<"rf1">> ELSE <<"rf1", "rf2">>

\* mutation of parseDefinition: ranges given to a definition that does not
\* need them are an error too
parseDefinition_strict(item) ==
    LET def == NewDefinition(item.driver)
        hasRanges == item.form = "object" IN
    IF needsRanges(def) # hasRanges THEN "Error" ELSE "ok"

\* detail::parseDefinition: "Error" when the definition needs ranges and the
\* entry has none; ranges that are not needed are ignored with a warning.
parseDefinition(item) ==
    LET def == NewDefinition(item.driver)
        hasRanges == item.form = "object" IN
    IF needsRanges(def)
    THEN IF ~hasRanges THEN "Error" ELSE "ok"
    ELSE "ok"

\* detail::parseResource: the exception it throws, or the list of runtime
\* resources, one per reference frame.
parseResource(item) ==
    IF parseDefinition(item) # "ok"
    THEN [thrown |-> parseDefinition(item), out |-> <<>>]
    ELSE [thrown |-> "none",
          out |-> [i \in DOMAIN referenceFramesOf(item) |->
                     [ id |-> <<referenceFramesOf(item)[i], "g", item.name>>,
                       driver |-> item.driver,
                       form |-> item.form,
                       hasRanges |-> item.form = "object" ]]]

\* The loop of processDefinition: insert each resource into the map; the
\* first id already present stops it with Json::Error.
RECURSIVE insertAll(_, _, _)
insertAll(map, out, i) ==
    IF i > Len(out) THEN [thrown |-> "none", map |-> map]
    ELSE IF out[i].id \in DOMAIN map
         THEN [thrown |-> "Json::Error", map |-> map]
         ELSE insertAll(
                [k \in DOMAIN map \cup {out[i].id} |->
                    IF k \in DOMAIN map THEN map[k] ELSE out[i]],
                out, i + 1)

\* catch clauses of the includeLoad lambda (Json::Error and vs::Error
\* become FormatError)
includeLoad_catch(exc) ==
    IF exc \in {"Json::Error", "vs::Error"} THEN "FormatError" ELSE exc

\* catch (const std::exception&) of the include lambda: rethrown as
\* std::runtime_error
include_catch(exc) == "std::runtime_error"

\* catch clauses of detail::loadResources
loadResources_catch(exc) ==
    IF exc \in {"Json::Error", "vs::Error"} THEN "FormatError" ELSE exc

\* The exception that leaves loadResources when `exc` is thrown with
\* `depth` parseResources calls on the stack.
RECURSIVE unwind(_, _)
unwind(exc, depth) ==
    IF depth <= 1 THEN loadResources_catch(exc)
    ELSE unwind(include_catch(includeLoad_catch(exc)), depth - 1)

Top == stack[Len(stack)]

Frame(file, entered) ==
    [file |-> file, pos |-> 1, pending |-> <<>>, entered |-> entered]

InitLoad ==
    /\ catalogue \in [Files -> FileContents]
    /\ stack = <<Frame(RootFile, {})>>
    /\ resources = <<>>
    /\ parsed = <<>>
    /\ loadStatus = "loading"
    /\ loadError = "none"
    /\ IdleDiff
    /\ IdleRt
    /\ IdleSv
    /\ IdlePg
    /\ IdleOv
    /\ IdleCov
    /\ IdleTi
    /\ IdleDm
    /\ IdleDd
    /\ IdleGn
    /\ IdleRr
    /\ IdleBs
    /\ IdleCt

Loading == loadStatus = "loading" /\ stack # <<>>

AtItem ==
    /\ Loading
    /\ Top.pending = <<>>
    /\ Top.pos <= Len(catalogue[Top.file])

\* processDefinition meets {"include": glob}: the glob is expanded.
ProcessInclude ==
    /\ AtItem
    /\ LET item == catalogue[Top.file][Top.pos] IN
       /\ item.kind = "include"
       /\ stack' = [stack EXCEPT ![Len(stack)] =
                       [@ EXCEPT !.pos = @ + 1, !.pending = globPath(item.glob)]]
    /\ UNCHANGED <<catalogue, resources, parsed, loadStatus, loadError>>
    /\ UNCHANGED notLoadVars

\* includeLoad: the next matching file is opened, read and parsed by a
\* nested parseResources call.
IncludeLoad ==
    /\ Loading
    /\ Top.pending # <<>>
    /\ Len(stack) < StackLimit
    /\ stack' = Append([stack EXCEPT ![Len(stack)] =
                           [@ EXCEPT !.pending = Tail(@)]],
                       Frame(Head(Top.pending), DOMAIN resources))
    /\ UNCHANGED <<catalogue, resources, parsed, loadStatus, loadError>>
    /\ UNCHANGED notLoadVars

\* The nested call does not fit on the process stack any more.
StackOverflow ==
    /\ Loading
    /\ Top.pending # <<>>
    /\ Len(stack) >= StackLimit
    /\ loadStatus' = "overflow"
    /\ UNCHANGED <<catalogue, stack, resources, parsed, loadError>>
    /\ UNCHANGED notLoadVars

\* processDefinition on a resource entry: parseResource, then the inserts.
ProcessResource ==
    /\ AtItem
    /\ LET item == catalogue[Top.file][Top.pos]
           res == parseResource(item)
           ins == insertAll(resources, res.out, 1)
           thrown == IF res.thrown # "none" THEN res.thrown ELSE ins.thrown
       IN
       /\ item.kind = "resource"
       /\ parsed' = Append(parsed, item)
       /\ resources' = ins.map
       /\ IF thrown = "none"
          THEN /\ stack' = [stack EXCEPT ![Len(stack)] = [@ EXCEPT !.pos = @ + 1]]
               /\ UNCHANGED <<loadStatus, loadError>>
          ELSE /\ loadStatus' = "failed"
               /\ loadError' = [thrown |-> thrown,
                                left |-> unwind(thrown, Len(stack)),
                                depth |-> Len(stack)]
               /\ UNCHANGED stack
    /\ UNCHANGED catalogue
    /\ UNCHANGED notLoadVars

\* parseResources returns: to the includeLoad that called it, or, for the
\* root file, to loadResources, which returns the map.
Return ==
    /\ Loading
    /\ Top.pending = <<>>
    /\ Top.pos > Len(catalogue[Top.file])
    /\ stack' = SubSeq(stack, 1, Len(stack) - 1)
    /\ loadStatus' = IF Len(stack) = 1 THEN "ok" ELSE loadStatus
    /\ UNCHANGED <<catalogue, resources, parsed, loadError>>
    /\ UNCHANGED notLoadVars

NextLoad ==
    \/ ProcessInclude
    \/ IncludeLoad
    \/ StackOverflow
    \/ ProcessResource
    \/ Return

SpecLoad == InitLoad /\ [][NextLoad]_vars

(***************************************************************************)
(* Claims about the catalogue loader (checked under SpecLoad)              *)
(***************************************************************************)

\* the ResourceIds a catalogue entry stands for
idsOf(item) ==
    {<<referenceFramesOf(item)[i], "g", item.name>> :
        i \in DOMAIN referenceFramesOf(item)}

\* The recursion ran out of stack only where it is truly endless: a file
\* was entered again, with the same resource map, while still being loaded.
LoadOverflowIsCycle ==
    loadStatus = "overflow" =>
        \E i, j \in DOMAIN stack :
            /\ i < j
            /\ stack[i].file = stack[j].file
            /\ stack[i].entered = stack[j].entered

MissingRanges(item) ==
    needsRanges(NewDefinition(item.driver)) /\ item.form = "array"

UnneededRanges(item) ==
    ~needsRanges(NewDefinition(item.driver)) /\ item.form = "object"

\* C3 as stated: an entry whose referenceFrames form does not match
\* needsRanges(), either way, fails the load.
C3_Original ==
    \A i \in DOMAIN parsed :
        (MissingRanges(parsed[i]) \/ UnneededRanges(parsed[i]))
            => loadStatus = "failed"

\* C3 amended: the array form for a definition that needs ranges is a hard
\* error (the load fails at that entry with Error and no runtime resource
\* comes from it); the object form for a definition that needs no ranges is
\* accepted (a warning only) and yields its runtime resources like any other
\* entry.
C3_MissingRangesOnly ==
    /\ \A id \in DOMAIN resources :
          ~(needsRanges(NewDefinition(resources[id].driver))
            /\ ~resources[id].hasRanges)
    /\ \A i \in DOMAIN parsed :
          /\ MissingRanges(parsed[i]) =>
                /\ i = Len(parsed)
                /\ loadStatus = "failed"
                /\ loadError.thrown = "Error"
          /\ UnneededRanges(parsed[i]) =>
                \/ \A id \in idsOf(parsed[i]) :
                      /\ id \in DOMAIN resources
                      /\ (i = Len(parsed) /\ loadStatus # "failed")
                            => resources[id].hasRanges
                \/ /\ i = Len(parsed)
                   /\ loadStatus = "failed"
                   /\ loadError.thrown = "Json::Error"

\* C3 witness: a load that succeeded and holds a runtime resource parsed
\* from the object form although its definition needs no ranges.
C3_Witness ==
    /\ loadStatus = "ok"
    /\ \E id \in DOMAIN resources :
          /\ ~needsRanges(NewDefinition(resources[id].driver))
          /\ resources[id].hasRanges

\* C4: the second occurrence of a ResourceId, in the root file or in an
\* included file, fails the whole load with a format error, and a load that
\* succeeds holds every ResourceId exactly once.
C4_DuplicateIsFormatError ==
    /\ \A i, j \in DOMAIN parsed :
          (i < j /\ idsOf(parsed[i]) \cap idsOf(parsed[j]) # {})
              => loadStatus = "failed"
    /\ (loadStatus = "failed" /\ loadError.thrown = "Json::Error")
          => loadError.left = "FormatError"
    /\ loadStatus = "ok" =>
          /\ \A i, j \in DOMAIN parsed :
                i # j => idsOf(parsed[i]) \cap idsOf(parsed[j]) = {}
          /\ DOMAIN resources = UNION {idsOf(parsed[i]) : i \in DOMAIN parsed}

\* C5: loadResources terminates, with a resource map or with an error, for
\* every catalogue, include cycles included: the include recursion never
\* runs until the stack is exhausted.
C5_Terminates ==
    loadStatus \in {"loading", "ok", "failed"}

(***************************************************************************)
(* Definition payload: to_impl / from_impl (buildDefinition and            *)
(* parseDefinition of the TMS definitions)                                 *)
(***************************************************************************)

\* A Json::Value object is a function from its member names to values.
EmptyObject == [k \in {} |-> "null"]

isMember(value, key) == key \in DOMAIN value

\* Option names in the order of the keys of a Json object (std::map order).
OptionOrder == <<"-s", "-z">>

\* One poProgressions element (option, baseLod, factor).
Progression(opt) ==
    [option |-> opt, baseLod |-> IF opt = "-z" THEN 10 ELSE 12, factor |-> 2]

\* buildDefinition: the loop writing poProgressions, one member per option
\* (a later element with the same option replaces the earlier one).
RECURSIVE buildProgressions(_, _)
buildProgressions(progs, i) ==
    IF i = 0 THEN EmptyObject
    ELSE LET p == progs[i]
             before == buildProgressions(progs, i - 1) IN
         [k \in DOMAIN before \cup {p.option} |->
             IF k = p.option THEN <<p.baseLod, p.factor>> ELSE before[k]]

\* parseDefinition: the loop reading poProgressions, members in key order.
RECURSIVE parseProgressions(_, _)
parseProgressions(obj, i) ==
    IF i > Len(OptionOrder) THEN <<>>
    ELSE IF OptionOrder[i] \in DOMAIN obj
         THEN <<[option |-> OptionOrder[i],
                 baseLod |-> obj[OptionOrder[i]][1],
                 factor |-> obj[OptionOrder[i]][2]]>>
              \o parseProgressions(obj, i + 1)
         ELSE parseProgressions(obj, i + 1)

\* TmsCommon::build: the bound-layer options, when there are any.
TmsCommon_build(value, def) ==
    IF def.options # "none" THEN ("options" :> def.options) @@ value ELSE value

\* TmsCommon::parse
TmsCommon_parse(def, value) ==
    IF isMember(value, "options")
    THEN [def EXCEPT !.options = value["options"]] ELSE def

\* buildDefinition(Json::Value&, const TmsGdaldem&)
TmsGdaldem_buildDefinition(def) ==
    LET v1 == ("dataset" :> def.dataset) @@ ("processing" :> def.processing)
        v2 == IF def.processingOptions # <<>>
              THEN ("processingOptions" :> def.processingOptions) @@ v1 ELSE v1
        v3 == IF def.poProgressions # <<>>
              THEN ("poProgresssions" :>
                      buildProgressions(def.poProgressions,
                                        Len(def.poProgressions))) @@ v2
              ELSE v2
        v4 == IF def.colorFile # "none"
              THEN ("colorFile" :> def.colorFile) @@ v3 ELSE v3
        v5 == ("format" :> def.format) @@ ("resampling" :> def.resampling)
                 @@ ("erodeMask" :> def.erodeMask) @@ v4
    IN TmsCommon_build(v5, def)

\* parseDefinition(TmsGdaldem&, const Json::Value&) on a fresh TmsGdaldem
TmsGdaldem_parseDefinition(value) ==
    LET d0 == [ class |-> "tms-gdaldem",
                dataset |-> value["dataset"],
                processing |-> value["processing"],
                processingOptions |-> <<>>, poProgressions |-> <<>>,
                colorFile |-> "none", format |-> "jpg", resampling |-> "dem",
                erodeMask |-> FALSE, options |-> "none" ]
        d1 == IF isMember(value, "processingOptions")
              THEN [d0 EXCEPT !.processingOptions = value["processingOptions"]]
              ELSE d0
        d2 == IF isMember(value, "poProgressions")
              THEN [d1 EXCEPT !.poProgressions =
                        parseProgressions(value["poProgressions"], 1)]
              ELSE d1
        d3 == IF isMember(value, "colorFile")
              THEN [d2 EXCEPT !.colorFile = value["colorFile"]] ELSE d2
        d4 == IF isMember(value, "format")
              THEN [d3 EXCEPT !.format = value["format"]] ELSE d3
        d5 == IF isMember(value, "resampling")
              THEN [d4 EXCEPT !.resampling = value["resampling"]] ELSE d4
        d6 == IF isMember(value, "erodeMask")
              THEN [d5 EXCEPT !.erodeMask = value["erodeMask"]] ELSE d5
    IN TmsCommon_parse(d6, value)

\* The member names parseDefinition(TmsGdaldem&) looks up.
TmsGdaldem_keysRead ==
    {"dataset", "processing", "processingOptions", "poProgressions",
     "colorFile", "format", "resampling", "erodeMask", "options"}

\* An unset boost::optional<Landcover>.
NoLandcover == [dataset |-> "none", classdef |-> "none"]

\* buildDefinition(Json::Value&, const TmsNormalMap&)
TmsNormalMap_buildDefinition(def) ==
    LET v1 == ("dataset" :> def.dataset) @@ ("erodeMask" :> def.erodeMask)
        v2 == IF def.landcover # NoLandcover
              THEN ("landcover" :>
                      [dataset |-> def.landcover.dataset,
                       classdef |-> def.landcover.classdef]) @@ v1
              ELSE v1
    IN TmsCommon_build(v2, def)

\* parseDefinition(TmsNormalMap&, const Json::Value&) on a fresh TmsNormalMap
TmsNormalMap_parseDefinition(value) ==
    LET d0 == [ class |-> "tms-normalmap", dataset |-> value["dataset"],
                landcover |-> NoLandcover, erodeMask |-> FALSE, options |-> "none" ]
        d1 == IF isMember(value, "landcover")
              THEN [d0 EXCEPT !.landcover =
                        [dataset |-> value["landcover"].dataset,
                         classdef |-> value["landcover"].classdef]]
              ELSE d0
        d2 == IF isMember(value, "erodeMask")
              THEN [d1 EXCEPT !.erodeMask = value["erodeMask"]] ELSE d1
    IN TmsCommon_parse(d2, value)

\* DefinitionBase::to (virtual to_impl)
Definition_to(def) ==
    IF def.class = "tms-gdaldem" THEN TmsGdaldem_buildDefinition(def)
    ELSE TmsNormalMap_buildDefinition(def)

\* resource::definition(generator) and DefinitionBase::from (virtual from_impl)
Definition_from(class, value) ==
    IF class = "tms-gdaldem" THEN TmsGdaldem_parseDefinition(value)
    ELSE TmsNormalMap_parseDefinition(value)

ProgressionLists ==
    {<<>>} \cup {<<Progression(a)>> : a \in {"-s", "-z"}}
           \cup {<<Progression("-s"), Progression("-z")>>}

TmsGdaldemDefinitions ==
    { [ class |-> "tms-gdaldem", dataset |-> ds, processing |-> p,
        processingOptions |-> po, poProgressions |-> pp, colorFile |-> cf,
        format |-> f, resampling |-> rs, erodeMask |-> em, options |-> "none" ] :
        ds \in {"dem-a"}, p \in Processings,
        po \in {<<>>, <<"-alpha">>}, pp \in ProgressionLists,
        cf \in {"none", "ramp.txt"}, f \in Formats,
        rs \in {"dem", "cubic"}, em \in BOOLEAN }

TmsNormalMapDefinitions ==
    { [ class |-> "tms-normalmap", dataset |-> ds, landcover |-> lc,
        erodeMask |-> em, options |-> op ] :
        ds \in Datasets,
        lc \in {NoLandcover, [dataset |-> "lc", classdef |-> "classes.json"]},
        em \in BOOLEAN, op \in {"none", "opts"} }

InitRoundTrip ==
    /\ rtDef \in TmsGdaldemDefinitions \cup TmsNormalMapDefinitions
    /\ rtJson = EmptyObject
    /\ rtLoaded = EmptyObject
    /\ rtPhase = "held"
    /\ IdleDiff
    /\ IdleLoad
    /\ IdleSv
    /\ IdlePg
    /\ IdleOv
    /\ IdleCov
    /\ IdleTi
    /\ IdleDm
    /\ IdleDd
    /\ IdleGn
    /\ IdleRr
    /\ IdleBs
    /\ IdleCt

\* save(): buildResource stores to() of the definition under "definition".
SaveResource ==
    /\ rtPhase = "held"
    /\ rtJson' = Definition_to(rtDef)
    /\ rtPhase' = "saved"
    /\ UNCHANGED <<rtDef, rtLoaded>>
    /\ UNCHANGED notRtVars

\* loadResource(): parseDefinition creates the definition of the saved
\* (type, driver) and fills it with from().
LoadResource ==
    /\ rtPhase = "saved"
    /\ rtLoaded' = Definition_from(rtDef.class, rtJson)
    /\ rtPhase' = "loaded"
    /\ UNCHANGED <<rtDef, rtJson>>
    /\ UNCHANGED notRtVars

NextRoundTrip ==
    \/ SaveResource
    \/ LoadResource

SpecRoundTrip == InitRoundTrip /\ [][NextRoundTrip]_vars

\* C6: save followed by load is the identity on the definition payload: the
\* definition read back differs from the saved one by changed() = no, and
\* every member written for tms-gdaldem is one that its parser reads.
C6_RoundTrip ==
    /\ rtPhase = "loaded" => Definition_changed(rtLoaded, rtDef) = "no"
    /\ (rtPhase \in {"saved", "loaded"} /\ rtDef.class = "tms-gdaldem")
          => DOMAIN rtJson \subseteq TmsGdaldem_keysRead

(***************************************************************************)
(* Serving: TmsRasterBase (vts and wmts interfaces), the TMS tile          *)
(* producers and the spheroid surface metatile                             *)
(***************************************************************************)

TmsDrivers == {"tms-gdaldem", "tms-normalmap", "tms-specularmap"}

\* TmsRasterBase::hasMetatiles and its override in TmsNormalMap
hasMetatiles(gen) == gen.driver = "tms-normalmap"

\* hasMask(): true in TmsNormalMap; the other drivers take the base class
\* value, which the generator record carries.
hasMask(gen) == IF gen.driver = "tms-normalmap" THEN TRUE ELSE gen.hasMask

\* generatorRevision_ of the TMS generators
generatorRevision_ == 0

generatorRevision(gen) == generatorRevision_

\* TmsGdaldem::format / TmsNormalMap::format
format(gen) == IF gen.driver = "tms-gdaldem" THEN "jpg" ELSE "webp"

RECURSIVE Pow2(_)
Pow2(n) == IF n = 0 THEN 1 ELSE 2 * Pow2(n - 1)

\* vts::parent(tileId, diff)
parent(tileId, diff) ==
    [lod |-> tileId.lod - diff,
     x |-> tileId.x \div Pow2(diff),
     y |-> tileId.y \div Pow2(diff)]

\* in(lod, lodRange)
in(lod, lodRange) == lodRange.min <= lod /\ lod <= lodRange.max

\* inside(tileRange, x, y)
inside(tileRange, x, y) ==
    /\ tileRange.llx <= x /\ x <= tileRange.urx
    /\ tileRange.lly <= y /\ y <= tileRange.ury

\* checkRanges(resource, tileId, rangeType)
checkRanges(res, tileId, rangeType) ==
    IF ~in(tileId.lod, res.lodRange) THEN FALSE
    ELSE IF rangeType = "lod" THEN TRUE
    ELSE LET pTileId == parent(tileId, tileId.lod - res.lodRange.min) IN
         inside(res.tileRange, pTileId.x, pTileId.y)

\* The tile range of the resource shifted from lodRange.min down to lod.
shiftRange(res, lod) ==
    LET f == Pow2(lod - res.lodRange.min) IN
    [llx |-> res.tileRange.llx * f, lly |-> res.tileRange.lly * f,
     urx |-> (res.tileRange.urx + 1) * f - 1,
     ury |-> (res.tileRange.ury + 1) * f - 1]

\* ImageFlags::checkFormat
checkFormat(flags, requested, configured) ==
    IF flags.atlas \/ flags.forceFormat THEN TRUE
    ELSE requested = configured

\* A default-constructed ImageFlags.
ImageFlags == [dontOptimize |-> FALSE, atlas |-> FALSE, forceFormat |-> FALSE]

\* Conversion specifications of a format string given as a list of pieces.
IsConversion(piece) == piece \in {"%s", "%d"}

RECURSIVE conversions(_)
conversions(fmt) ==
    IF fmt = <<>> THEN 0
    ELSE (IF IsConversion(Head(fmt)) THEN 1 ELSE 0) + conversions(Tail(fmt))

\* Feeding the arguments to the conversions, left to right; a conversion
\* that gets no argument prints nothing.
RECURSIVE feed(_, _)
feed(fmt, args) ==
    IF fmt = <<>> THEN <<>>
    ELSE IF IsConversion(Head(fmt))
         THEN IF args = <<>> THEN feed(Tail(fmt), args)
              ELSE Head(args) \o feed(Tail(fmt), Tail(args))
         ELSE <<Head(fmt)>> \o feed(Tail(fmt), args)

\* utility::format(fmt, args...): with fewer arguments than conversions
\* the result depends on the exception mask of the formatter: it either
\* throws (too few arguments) or prints what it was fed.
utility_format(fmt, args, throwing) ==
    IF Len(args) < conversions(fmt) /\ throwing
    THEN [thrown |-> TRUE, text |-> <<>>]
    ELSE [thrown |-> FALSE, text |-> feed(fmt, args)]

\* RevisionWrapper(revision, prefix) streamed into the url
RevisionWrapper(revision, prefix) == <<prefix, "r=", ToString(revision)>>

RECURSIVE backupDirs(_)
backupDirs(n) == IF n <= 0 THEN <<>> ELSE <<"..", "/">> \o backupDirs(n - 1)

\* prependRoot(path, resource id, generator interface, root)
prependRoot(path, rid, iface, root) ==
    LET rf == IF root.depth = "referenceFrame"
              THEN <<rid.referenceFrame, "/">> ELSE <<>>
        ifc == IF root.depth \in {"referenceFrame", "interface"}
               THEN <<iface, "/">> ELSE <<>>
        grp == IF root.depth \in {"referenceFrame", "interface", "group"}
               THEN <<rid.group, "/">> ELSE <<>>
        id == IF root.depth \in {"referenceFrame", "interface", "group", "id"}
              THEN <<rid.id, "/">> ELSE <<>>
    IN backupDirs(root.backup) \o rf \o ifc \o grp \o id \o path

\* ResourceRoot::none
ResourceRoot_none == [depth |-> "none", backup |-> 0]

\* TmsRasterBase::boundLayer(root): the three urls, or the exception
\* leaving it.
boundLayer(gen, root, throwing) ==
    LET res == gen.resource
        tile == utility_format(<<"{lod}-{x}-{y}.", "%s", "?gr=", "%d", "%s">>,
                               <<<<format(gen)>>,
                                 RevisionWrapper(res.revision, "&")>>,
                               throwing)
        mask == utility_format(<<"{lod}-{x}-{y}.mask", "?gr=", "%d", "%s">>,
                               <<RevisionWrapper(res.revision, "&")>>,
                               throwing)
        meta == utility_format(<<"{lod}-{x}-{y}.meta", "?gr=", "%d", "%s">>,
                               <<<<ToString(generatorRevision(gen))>>,
                                 RevisionWrapper(res.revision, "&")>>,
                               throwing)
        pr(u) == prependRoot(u.text, res.id, "tms", root)
    IN IF tile.thrown \/ (hasMask(gen) /\ mask.thrown)
          \/ (hasMask(gen) /\ hasMetatiles(gen) /\ meta.thrown)
       THEN [thrown |-> TRUE, url |-> <<>>, maskUrl |-> <<>>, metaUrl |-> <<>>]
       ELSE [thrown |-> FALSE,
             url |-> pr(tile),
             maskUrl |-> IF hasMask(gen) THEN pr(mask) ELSE <<>>,
             metaUrl |-> IF hasMask(gen) /\ hasMetatiles(gen)
                         THEN pr(meta) ELSE <<>>]

\* No bound layer in the response.
NoBoundLayer ==
    [thrown |-> FALSE, url |-> <<>>, maskUrl |-> <<>>, metaUrl |-> <<>>]

\* The value of query parameter `key` of a url: what follows "<key>=" up
\* to the next parameter.
RECURSIVE queryValue(_, _)
queryValue(url, key) ==
    IF url = <<>> THEN "absent"
    ELSE IF Head(url) = key
         THEN IF Len(url) = 1 \/ url[2] \in {"?", "&"} THEN ""
              ELSE url[2]
         ELSE queryValue(Tail(url), key)

ServeResources ==
    { [ id |-> [referenceFrame |-> "rf1", group |-> "g", id |-> "a"],
        lodRange |-> [min |-> 1, max |-> 2],
        tileRange |-> tr, revision |-> rev ] :
        tr \in { [llx |-> 0, lly |-> 0, urx |-> 0, ury |-> 0],
                 [llx |-> 1, lly |-> 0, urx |-> 1, ury |-> 1] },
        rev \in {0, 1} }

\* The generators: the three TMS drivers (tile index present or not, mask
\* offered or not, landcover dataset configured or not) and the spheroid
\* surface.
ServeGenerators ==
    { [ driver |-> d, resource |-> r, hasIndex |-> ix, hasMask |-> hm,
        landcover |-> lc ] :
        d \in TmsDrivers, r \in ServeResources, ix \in BOOLEAN,
        hm \in BOOLEAN, lc \in BOOLEAN }
    \cup
    { [ driver |-> "surface-spheroid", resource |-> r, hasIndex |-> TRUE,
        hasMask |-> FALSE, landcover |-> FALSE ] : r \in ServeResources }

Lods == 0 .. 2

Tiles ==
    { [lod |-> l, x |-> x, y |-> y] :
        l \in Lods, x \in 0 .. 3, y \in 0 .. 3 }

TileIds == { t \in Tiles : t.x < Pow2(t.lod) /\ t.y < Pow2(t.lod) }

\* vts::NodeInfo of the requested tile in the reference frame
Nodes == {"invalid", "unproductive", "productive"}

\* Requests a generator can be handed.  Mask tiles are requested from
\* tms-gdaldem only, the one driver whose generateTileMask is at hand.
Requests(gen) ==
    IF gen.driver \in TmsDrivers
    THEN { [ iface |-> i, type |-> "image", tileId |-> t, format |-> f,
             node |-> n, real |-> rl, inMeta |-> TRUE, blocks |-> 0 ] :
             i \in {"vts", "wmts"}, t \in TileIds,
             f \in {format(gen), "png"}, n \in Nodes,
             rl \in IF gen.hasIndex THEN BOOLEAN ELSE {TRUE} }
         \cup
         { [ iface |-> "vts", type |-> "mask", tileId |-> t,
             format |-> "png", node |-> n, real |-> rl, inMeta |-> TRUE,
             blocks |-> 0 ] :
             t \in IF gen.driver = "tms-gdaldem" THEN TileIds ELSE {},
             n \in Nodes, rl \in IF gen.hasIndex THEN BOOLEAN ELSE {TRUE} }
         \cup
         { [ iface |-> "vts", type |-> "metatile", tileId |-> t,
             format |-> "png", node |-> "productive", real |-> TRUE,
             inMeta |-> TRUE, blocks |-> b ] :
             t \in {u \in TileIds : u.x = 0 /\ u.y = 0}, b \in {0, 1} }
         \cup
         { [ iface |-> it[1], type |-> it[2],
             tileId |-> [lod |-> 0, x |-> 0, y |-> 0],
             format |-> "png", node |-> "productive", real |-> TRUE,
             inMeta |-> TRUE, blocks |-> 0 ] :
             it \in { <<"vts", "definition">>, <<"vts", "unknown">>,
                      <<"wmts", "unknown">> } }
    ELSE { [ iface |-> "vts", type |-> "metatile", tileId |-> t,
             format |-> "png", node |-> "productive", real |-> TRUE,
             inMeta |-> im, blocks |-> b ] :
             t \in {u \in TileIds : u.x = 0 /\ u.y = 0},
             im \in BOOLEAN, b \in {0, 1, 2} }

NoOutput == [kind |-> "none", what |-> "none", layer |-> NoBoundLayer]

NoAbort == [aborted |-> FALSE, pc |-> "none", blocks |-> 0]

\* sink.error(...)
sink_error(what) == [kind |-> "error", what |-> what, layer |-> NoBoundLayer]

\* sink.content(...)
sink_content(what) ==
    [kind |-> "content", what |-> what, layer |-> NoBoundLayer]

\* An exception leaving the handler or the task.
thrown(what) == [kind |-> "exception", what |-> what, layer |-> NoBoundLayer]

InitServe ==
    /\ svGen \in ServeGenerators
    /\ svReq = [ iface |-> "vts", type |-> "unknown",
                 tileId |-> [lod |-> 0, x |-> 0, y |-> 0], format |-> "png",
                 node |-> "productive", real |-> TRUE, inMeta |-> TRUE,
                 blocks |-> 0 ]
    /\ svPc = "ready"
    /\ svFlags = ImageFlags
    /\ svEntered = "none"
    /\ svWarps = 0
    /\ svBlocks = 0
    /\ svAbort = NoAbort
    /\ svOut = NoOutput
    /\ IdleDiff
    /\ IdleLoad
    /\ IdleRt
    /\ IdlePg
    /\ IdleOv
    /\ IdleCov
    /\ IdleTi
    /\ IdleDm
    /\ IdleDd
    /\ IdleGn
    /\ IdleRr
    /\ IdleBs
    /\ IdleCt

\* A request arrives with a fresh sink.
Request ==
    /\ svPc = "ready"
    /\ \E req \in Requests(svGen) : svReq' = req
    /\ svPc' = "dispatch"
    /\ svFlags' = ImageFlags
    /\ svEntered' = "none"
    /\ svWarps' = 0
    /\ svBlocks' = 0
    /\ svAbort' = NoAbort
    /\ svOut' = NoOutput
    /\ UNCHANGED svGen
    /\ UNCHANGED notSvVars

\* The client goes away: the sink's aborted flag is set, whatever the
\* handler or the task is doing at that moment.
Abort ==
    /\ svPc \notin {"ready", "done"}
    /\ ~svAbort.aborted
    /\ svAbort' = [aborted |-> TRUE, pc |-> svPc, blocks |-> svBlocks]
    /\ UNCHANGED <<svGen, svReq, svPc, svFlags, svEntered, svWarps, svBlocks,
                   svOut>>
    /\ UNCHANGED notSvVars

\* The handler answers at once.
Respond(out) ==
    /\ svOut' = out
    /\ svPc' = "done"

\* The handler returns a task to be run by a worker.
Defer(flags) ==
    /\ svFlags' = flags
    /\ svPc' = "task"
    /\ UNCHANGED svOut

\* TmsRasterBase::generateVtsFile_impl
GenerateVtsFile ==
    /\ svPc = "dispatch"
    /\ svGen.driver \in TmsDrivers
    /\ svReq.iface = "vts"
    /\ LET res == svGen.resource
           ty == svReq.type IN
       IF ty \in {"image", "mask"} /\ ~checkRanges(res, svReq.tileId, "full")
       THEN Respond(sink_error("NotFound")) /\ UNCHANGED svFlags
       ELSE IF ty = "metatile" /\ hasMetatiles(svGen)
       THEN Respond(sink_error("NotFound")) /\ UNCHANGED svFlags
       ELSE IF ty = "metatile" /\ ~checkRanges(res, svReq.tileId, "lod")
       THEN Respond(sink_error("NotFound")) /\ UNCHANGED svFlags
       ELSE IF ty = "unknown"
       THEN Respond(sink_error("NotFound")) /\ UNCHANGED svFlags
       ELSE IF ty = "definition"
       THEN /\ \E throwing \in BOOLEAN :
                 LET bl == boundLayer(svGen, ResourceRoot_none, throwing) IN
                 IF bl.thrown
                 THEN Respond(thrown("too_few_args"))
                 ELSE Respond([kind |-> "content", what |-> "boundlayer",
                               layer |-> bl])
            /\ UNCHANGED svFlags
       ELSE Defer(ImageFlags)
    /\ UNCHANGED <<svGen, svReq, svEntered, svWarps, svBlocks, svAbort>>
    /\ UNCHANGED notSvVars

\* TmsRasterBase::wmtsInterface
WmtsInterface ==
    /\ svPc = "dispatch"
    /\ svGen.driver \in TmsDrivers
    /\ svReq.iface = "wmts"
    /\ svReq.type \in {"image", "unknown"}
    /\ IF svReq.type = "image"
       THEN Defer([ImageFlags EXCEPT !.dontOptimize = TRUE])
       ELSE Respond(sink_error("NotFound")) /\ UNCHANGED svFlags
    /\ UNCHANGED <<svGen, svReq, svEntered, svWarps, svBlocks, svAbort>>
    /\ UNCHANGED notSvVars

\* SurfaceBase::generateFile_impl, tile file of type meta
SurfaceGenerateFile ==
    /\ svPc = "dispatch"
    /\ svGen.driver = "surface-spheroid"
    /\ svReq.iface = "vts"
    /\ svReq.type = "metatile"
    /\ Defer(ImageFlags)
    /\ UNCHANGED <<svGen, svReq, svEntered, svWarps, svBlocks, svAbort>>
    /\ UNCHANGED notSvVars

\* A checkAborted that never throws.
checkAborted_never == FALSE

\* sink.checkAborted() throws when the sink has been aborted.
checkAborted == svAbort.aborted

\* The tile has no data of its own: the node is unproductive, or the tile
\* index is there and does not flag the tile real.
NoValidData ==
    \/ svReq.node = "unproductive"
    \/ (svGen.hasIndex /\ ~svReq.real)

\* The task ends with the given outcome.
Finish(out) ==
    /\ svOut' = out
    /\ svPc' = "done"

\* generateTileImage of TmsGdaldem, TmsNormalMap and TmsSpecularMap, up to
\* the first warper call
GenerateTileImage_begin ==
    /\ svPc = "task"
    /\ svGen.driver \in TmsDrivers
    /\ svReq.type = "image"
    /\ svEntered' = "generateTileImage"
    /\ IF checkAborted
       THEN Finish(thrown("Cancelled")) /\ UNCHANGED svWarps
       ELSE IF ~checkFormat(svFlags, svReq.format, format(svGen))
       THEN Finish(sink_error("NotFound")) /\ UNCHANGED svWarps
       ELSE IF svReq.node = "invalid"
       THEN Finish(sink_error("NotFound")) /\ UNCHANGED svWarps
       ELSE IF NoValidData
       THEN /\ IF svGen.driver = "tms-gdaldem" /\ ~svFlags.dontOptimize
               THEN Finish(sink_error("EmptyImage"))
               ELSE Finish(sink_content("black"))
            /\ UNCHANGED svWarps
       ELSE /\ svPc' = "warp"
            /\ svWarps' = svWarps + 1
            /\ UNCHANGED svOut
    /\ UNCHANGED <<svGen, svReq, svFlags, svBlocks, svAbort>>
    /\ UNCHANGED notSvVars

\* generateTileImage after the dataset warp has returned
GenerateTileImage_warped ==
    /\ svPc = "warp"
    /\ svReq.type = "image"
    /\ IF checkAborted
       THEN Finish(thrown("Cancelled")) /\ UNCHANGED svWarps
       ELSE IF svGen.driver = "tms-normalmap" /\ svGen.landcover
       THEN /\ svPc' = "warpLandcover"
            /\ svWarps' = svWarps + 1
            /\ UNCHANGED svOut
       ELSE Finish(sink_content("image")) /\ UNCHANGED svWarps
    /\ UNCHANGED <<svGen, svReq, svFlags, svEntered, svBlocks, svAbort>>
    /\ UNCHANGED notSvVars

\* TmsNormalMap::generateTileImage after the landcover warp has returned
GenerateTileImage_landcover ==
    /\ svPc = "warpLandcover"
    /\ IF checkAborted
       THEN Finish(thrown("Cancelled"))
       ELSE Finish(sink_content("image"))
    /\ UNCHANGED <<svGen, svReq, svFlags, svEntered, svWarps, svBlocks,
                   svAbort>>
    /\ UNCHANGED notSvVars

\* TmsGdaldem::generateTileMask up to the warper call
GenerateTileMask_begin ==
    /\ svPc = "task"
    /\ svGen.driver \in TmsDrivers
    /\ svReq.type = "mask"
    /\ svEntered' = "generateTileMask"
    /\ IF checkAborted
       THEN Finish(thrown("Cancelled")) /\ UNCHANGED svWarps
       ELSE IF svReq.node = "invalid"
       THEN Finish(sink_error("NotFound")) /\ UNCHANGED svWarps
       ELSE IF NoValidData
       THEN Finish(sink_error("EmptyImage")) /\ UNCHANGED svWarps
       ELSE /\ svPc' = "warp"
            /\ svWarps' = svWarps + 1
            /\ UNCHANGED svOut
    /\ UNCHANGED <<svGen, svReq, svFlags, svBlocks, svAbort>>
    /\ UNCHANGED notSvVars

\* TmsGdaldem::generateTileMask after the mask warp has returned
GenerateTileMask_warped ==
    /\ svPc = "warp"
    /\ svReq.type = "mask"
    /\ IF checkAborted
       THEN Finish(thrown("Cancelled"))
       ELSE Finish(sink_content("mask"))
    /\ UNCHANGED <<svGen, svReq, svFlags, svEntered, svWarps, svBlocks,
                   svAbort>>
    /\ UNCHANGED notSvVars

\* TmsRasterBase::generateMetatile
GenerateMetatile ==
    /\ svPc = "task"
    /\ svGen.driver \in TmsDrivers
    /\ svReq.type = "metatile"
    /\ svEntered' = "generateMetatile"
    /\ IF checkAborted
       THEN Finish(thrown("Cancelled"))
       ELSE IF svReq.blocks = 0
       THEN Finish(sink_error("NotFound"))
       ELSE IF ~svGen.hasIndex
       THEN Finish(thrown("runtime_error"))
       ELSE Finish(sink_content("metatile"))
    /\ UNCHANGED <<svGen, svReq, svFlags, svWarps, svBlocks, svAbort>>
    /\ UNCHANGED notSvVars

\* SurfaceSpheroid::generateMetatile up to the loop over the blocks
SpheroidMetatile_begin ==
    /\ svPc = "task"
    /\ svGen.driver = "surface-spheroid"
    /\ svEntered' = "generateMetatile"
    /\ IF checkAborted
       THEN Finish(thrown("Cancelled"))
       ELSE IF ~svReq.inMeta
       THEN Finish(sink_error("NotFound"))
       ELSE IF svReq.blocks = 0
       THEN Finish(sink_error("NotFound"))
       ELSE svPc' = "blocks" /\ UNCHANGED svOut
    /\ UNCHANGED <<svGen, svReq, svFlags, svWarps, svBlocks, svAbort>>
    /\ UNCHANGED notSvVars

\* SurfaceSpheroid::generateMetatile: one pass of the loop over the blocks
SpheroidMetatile_block ==
    /\ svPc = "blocks"
    /\ svBlocks < svReq.blocks
    /\ svBlocks' = svBlocks + 1
    /\ UNCHANGED <<svGen, svReq, svPc, svFlags, svEntered, svWarps, svAbort,
                   svOut>>
    /\ UNCHANGED notSvVars

\* SurfaceSpheroid::generateMetatile after the loop: the metatile is saved
\* and handed to the sink
SpheroidMetatile_end ==
    /\ svPc = "blocks"
    /\ svBlocks = svReq.blocks
    /\ Finish(sink_content("metatile"))
    /\ UNCHANGED <<svGen, svReq, svFlags, svEntered, svWarps, svBlocks,
                   svAbort>>
    /\ UNCHANGED notSvVars

NextServe ==
    \/ Request
    \/ Abort
    \/ GenerateVtsFile
    \/ WmtsInterface
    \/ SurfaceGenerateFile
    \/ GenerateTileImage_begin
    \/ GenerateTileImage_warped
    \/ GenerateTileImage_landcover
    \/ GenerateTileMask_begin
    \/ GenerateTileMask_warped
    \/ GenerateMetatile
    \/ SpheroidMetatile_begin
    \/ SpheroidMetatile_block
    \/ SpheroidMetatile_end

SpecServe == InitServe /\ [][NextServe]_vars

\* The url carries gr = generatorRevision() and r = the resource revision.
UrlCarriesRevisions(url) ==
    /\ queryValue(url, "?gr=") = ToString(generatorRevision(svGen))
    /\ queryValue(url, "r=") = ToString(svGen.resource.revision)

\* A bound layer definition has been asked of a TMS generator and answered.
BoundLayerAnswered ==
    /\ svPc = "done"
    /\ svGen.driver \in TmsDrivers
    /\ svReq.iface = "vts"
    /\ svReq.type = "definition"

\* C7: building the bound layer of a TMS resource never fails, and each of
\* its tile, mask and meta urls carries gr = generatorRevision() and
\* r = the resource revision.
C7_BoundLayerUrls ==
    BoundLayerAnswered =>
        /\ svOut.kind = "content"
        /\ UrlCarriesRevisions(svOut.layer.url)
        /\ hasMask(svGen) => UrlCarriesRevisions(svOut.layer.maskUrl)
        /\ (hasMask(svGen) /\ hasMetatiles(svGen))
              => UrlCarriesRevisions(svOut.layer.metaUrl)

\* generateTileImage has run to its end, unaborted, for a valid tile in an
\* accepted format that has no data of its own.
EmptyTileAnswered ==
    /\ svPc = "done"
    /\ svEntered = "generateTileImage"
    /\ ~svAbort.aborted
    /\ checkFormat(svFlags, svReq.format, format(svGen))
    /\ svReq.node # "invalid"
    /\ NoValidData

\* C8: in every TMS tile-image producer a valid tile that is unproductive,
\* or not flagged real in a present tile index, costs no warper call and
\* ends with the EmptyImage error, or with a black image when the caller
\* set dontOptimize.
C8_EmptyImage ==
    EmptyTileAnswered =>
        /\ svWarps = 0
        /\ svOut = IF svFlags.dontOptimize THEN sink_content("black")
                   ELSE sink_error("EmptyImage")

\* The requested tile lies in the resource's tile range shifted to the
\* tile's lod.
InShiftedRange(res, tileId) ==
    /\ in(tileId.lod, res.lodRange)
    /\ inside(shiftRange(res, tileId.lod), tileId.x, tileId.y)

\* checkRanges is the shifted-range test.
RangeGateIsShiftedRange ==
    svPc # "ready" =>
        (checkRanges(svGen.resource, svReq.tileId, "full")
            <=> InShiftedRange(svGen.resource, svReq.tileId))

\* An image or mask request for a tile outside the configured range.
OutOfRangeTileRequest ==
    /\ svPc # "ready"
    /\ svGen.driver \in TmsDrivers
    /\ svReq.type \in {"image", "mask"}
    /\ ~checkRanges(svGen.resource, svReq.tileId, "full")

\* C9: a tile image or mask request outside the configured range never
\* reaches generateTileImage / generateTileMask and is answered NotFound,
\* on the vts and on the wmts interface.
C9_RangeGate ==
    OutOfRangeTileRequest =>
        /\ svEntered = "none"
        /\ svPc = "done" => svOut = sink_error("NotFound")

\* The sink was aborted while the metatile was being built, after some but
\* not all of its blocks, and the task has ended.
AbortedMidMetatile ==
    /\ svPc = "done"
    /\ svReq.type = "metatile"
    /\ svAbort.aborted
    /\ svAbort.pc = "blocks"
    /\ 0 < svAbort.blocks
    /\ svAbort.blocks < svReq.blocks

\* C10: a metatile build whose sink is aborted after some but not all of
\* its blocks ends with Cancelled, and sink.content is never called.
C10_AbortStopsMetatile ==
    AbortedMidMetatile => svOut = thrown("Cancelled")

\* The sink of a tile image or mask task was aborted at some point.
AbortedProducer ==
    /\ svEntered \in {"generateTileImage", "generateTileMask"}
    /\ svAbort.aborted

MaxPrepares == 2

Max(a, b) == IF a >= b THEN a ELSE b

\* A file: absent, partially written or complete; `revision` is the
\* revision a complete tileset.conf or resource.json records.
File(state, revision) == [state |-> state, revision |-> revision]

Absent == File("absent", 0)

\* fs::exists
exists(file) == file.state # "absent"

\* The resource directory before anything was stored in it: resource.json,
\* tileset.conf, tileset.index, delivery.index and delivery.index.tmp.
EmptyDisk ==
    [resource |-> Absent, conf |-> Absent, tsindex |-> Absent,
     delivery |-> Absent, tmp |-> Absent]

\* The revision the generator is given: max(configured, stored + bump).
effectiveRevision(configured, stored, bump) == Max(configured, stored + bump)

\* An updateProperties that leaves the stored revision alone.
updateProperties_keepRevision(props, revision, otherChanged) ==
    [revision |-> props, changed |-> otherChanged]

\* SurfaceBase::updateProperties: the revision part, and whether anything
\* (revision, nominalTexelSize, mergeBottomLod) changed.
updateProperties(props, revision, otherChanged) ==
    [revision |-> IF revision > props THEN revision ELSE props,
     changed |-> otherChanged \/ revision > props]

\* A TmsGdaldem constructor that makes ready whenever no change is enforced.
TmsGdaldem_ctor_noIndex(disk, enforced) ==
    IF enforced THEN [index |-> FALSE, ready |-> FALSE]
    ELSE [index |-> FALSE, ready |-> TRUE]

\* TmsGdaldem::TmsGdaldem: index_ and ready after construction
TmsGdaldem_ctor(disk, enforced) ==
    IF enforced THEN [index |-> FALSE, ready |-> FALSE]
    ELSE IF exists(disk.delivery) THEN [index |-> TRUE, ready |-> TRUE]
    ELSE [index |-> FALSE, ready |-> FALSE]

InitPrepare ==
    /\ pgDriver \in {"tms-gdaldem", "surface-spheroid"}
    /\ pgDisk = EmptyDisk
    /\ pgRevision = 0
    /\ pgEnforced = FALSE
    /\ pgProps = 0
    /\ pgIndex = FALSE
    /\ pgReady = FALSE
    /\ pgPc = "down"
    /\ pgCtx = "none"
    /\ pgCalls = << >>
    /\ pgHigh = 0
    /\ IdleDiff
    /\ IdleLoad
    /\ IdleRt
    /\ IdleSv
    /\ IdleOv
    /\ IdleCov
    /\ IdleTi
    /\ IdleDm
    /\ IdleDd
    /\ IdleGn
    /\ IdleRr
    /\ IdleBs
    /\ IdleCt

\* The routine ends, leaving the generator as it is.
PgReturn ==
    /\ pgPc' = "idle"
    /\ pgCtx' = "none"

\* The server starts: the generator is created for the resource as read
\* from the catalogue, reconciled with the resource stored in its
\* directory (resource.json), and its constructor starts.
Boot ==
    /\ pgPc = "down"
    /\ \E configured \in 0 .. MaxRevision, bump \in {0, 1}, enforced \in BOOLEAN :
          LET known == exists(pgDisk.resource)
              rev == IF known
                     THEN effectiveRevision(configured,
                                            pgDisk.resource.revision, bump)
                     ELSE configured
          IN /\ rev <= MaxRevision
             /\ pgRevision' = rev
             /\ pgEnforced' = (known /\ enforced)
             /\ pgDisk' = [pgDisk EXCEPT !.resource = File("complete", rev)]
    /\ pgPc' = "ctor"
    /\ pgCtx' = "ctor"
    /\ pgCalls' = << >>
    /\ UNCHANGED <<pgDriver, pgProps, pgIndex, pgReady, pgHigh>>
    /\ UNCHANGED notPgVars

\* The process ends (shutdown or crash) wherever it is: memory is lost, the
\* files stay as they are.
Crash ==
    /\ pgPc # "down"
    /\ pgPc' = "down"
    /\ pgCtx' = "none"
    /\ pgRevision' = 0
    /\ pgEnforced' = FALSE
    /\ pgProps' = 0
    /\ pgIndex' = FALSE
    /\ pgReady' = FALSE
    /\ UNCHANGED <<pgDriver, pgDisk, pgCalls, pgHigh>>
    /\ UNCHANGED notPgVars

\* TmsGdaldem::TmsGdaldem
TmsGdaldem_construct ==
    /\ pgPc = "ctor"
    /\ pgDriver = "tms-gdaldem"
    /\ LET made == TmsGdaldem_ctor(pgDisk, pgEnforced) IN
          /\ pgIndex' = made.index
          /\ pgReady' = made.ready
    /\ PgReturn
    /\ UNCHANGED <<pgDriver, pgDisk, pgRevision, pgEnforced, pgProps, pgCalls,
                   pgHigh>>
    /\ UNCHANGED notPgVars

\* SurfaceSpheroid::SurfaceSpheroid calling SurfaceBase::loadFiles, up to
\* the saving of the updated properties
LoadFiles_begin ==
    /\ pgPc = "ctor"
    /\ pgDriver = "surface-spheroid"
    /\ IF pgEnforced
       THEN PgReturn /\ UNCHANGED pgProps
       ELSE IF exists(pgDisk.tsindex) /\ exists(pgDisk.conf)
       THEN IF pgDisk.conf.state = "partial"
            THEN PgReturn /\ UNCHANGED pgProps
            ELSE \E otherChanged \in BOOLEAN :
                   LET upd == updateProperties(pgDisk.conf.revision,
                                               pgRevision, otherChanged)
                   IN /\ pgProps' = upd.revision
                      /\ pgPc' = IF upd.changed THEN "saveConfig"
                                 ELSE "delivery"
                      /\ UNCHANGED pgCtx
       ELSE PgReturn /\ UNCHANGED pgProps
    /\ UNCHANGED <<pgDriver, pgDisk, pgRevision, pgEnforced, pgIndex, pgReady,
                   pgCalls, pgHigh>>
    /\ UNCHANGED notPgVars

\* vts::tileset::saveConfig(filePath(vts::File::config), properties_):
\* the file is opened for writing under its own name
SaveConfig_begin ==
    /\ pgPc = "saveConfig"
    /\ pgDisk' = [pgDisk EXCEPT !.conf = File("partial", 0)]
    /\ pgPc' = "saveConfig_write"
    /\ UNCHANGED <<pgDriver, pgRevision, pgEnforced, pgProps, pgIndex, pgReady,
                   pgCtx, pgCalls, pgHigh>>
    /\ UNCHANGED notPgVars

\* saveConfig has written and closed the file; loadFiles goes on to the
\* delivery index, prepare_impl to the tileset index
SaveConfig_end ==
    /\ pgPc = "saveConfig_write"
    /\ pgDisk' = [pgDisk EXCEPT !.conf = File("complete", pgProps)]
    /\ pgHigh' = Max(pgHigh, pgProps)
    /\ pgPc' = IF pgCtx = "ctor" THEN "delivery" ELSE "saveTileSetIndex"
    /\ UNCHANGED <<pgDriver, pgRevision, pgEnforced, pgProps, pgIndex, pgReady,
                   pgCtx, pgCalls>>
    /\ UNCHANGED notPgVars

\* SurfaceBase::loadFiles: the delivery index is created from the tileset
\* index when it is not there, and opened
LoadFiles_delivery ==
    /\ pgPc = "delivery"
    /\ IF exists(pgDisk.delivery)
       THEN pgPc' = "open" /\ UNCHANGED pgCtx
       ELSE IF pgDisk.tsindex.state = "partial"
       THEN PgReturn
       ELSE pgPc' = "writeTmp" /\ UNCHANGED pgCtx
    /\ UNCHANGED <<pgDriver, pgDisk, pgRevision, pgEnforced, pgProps, pgIndex,
                   pgReady, pgCalls, pgHigh>>
    /\ UNCHANGED notPgVars

\* mmapped::TileIndex::write(tmpPath, index): delivery.index.tmp is opened
WriteTmp_begin ==
    /\ pgPc = "writeTmp"
    /\ pgDisk' = [pgDisk EXCEPT !.tmp = File("partial", 0)]
    /\ pgPc' = "writeTmp_write"
    /\ UNCHANGED <<pgDriver, pgRevision, pgEnforced, pgProps, pgIndex, pgReady,
                   pgCtx, pgCalls, pgHigh>>
    /\ UNCHANGED notPgVars

\* mmapped::TileIndex::write has written delivery.index.tmp
WriteTmp_end ==
    /\ pgPc = "writeTmp_write"
    /\ pgDisk' = [pgDisk EXCEPT !.tmp = File("complete", 0)]
    /\ pgPc' = "rename"
    /\ UNCHANGED <<pgDriver, pgRevision, pgEnforced, pgProps, pgIndex, pgReady,
                   pgCtx, pgCalls, pgHigh>>
    /\ UNCHANGED notPgVars

\* fs::rename(tmpPath, deliveryIndexPath)
Rename ==
    /\ pgPc = "rename"
    /\ pgDisk' = [pgDisk EXCEPT !.delivery = pgDisk.tmp, !.tmp = Absent]
    /\ pgPc' = "open"
    /\ UNCHANGED <<pgDriver, pgRevision, pgEnforced, pgProps, pgIndex, pgReady,
                   pgCtx, pgCalls, pgHigh>>
    /\ UNCHANGED notPgVars

\* index_ is assigned the opened delivery index.  In the constructor
\* loadFiles then returns true and SurfaceSpheroid makes ready; prepare_impl
\* returns to its caller.
OpenIndex ==
    /\ pgPc = "open"
    /\ pgIndex' = TRUE
    /\ IF pgCtx = "ctor"
       THEN pgReady' = TRUE /\ PgReturn
       ELSE pgPc' = "prepared" /\ UNCHANGED <<pgReady, pgCtx>>
    /\ UNCHANGED <<pgDriver, pgDisk, pgRevision, pgEnforced, pgProps, pgCalls,
                   pgHigh>>
    /\ UNCHANGED notPgVars

\* A prepare that runs prepare_impl whatever the state.
Generator_prepare_always(ready) == "prepare_impl"

\* Generator::prepare: nothing to do for a ready generator
Generator_prepare(ready) == IF ready THEN "idle" ELSE "prepare_impl"

\* The preparer calls Generator::prepare.
Prepare ==
    /\ pgPc = "idle"
    /\ Len(pgCalls) < MaxPrepares
    /\ pgPc' = Generator_prepare(pgReady)
    /\ pgCalls' = Append(pgCalls, pgPc')
    /\ pgCtx' = IF pgPc' = "idle" THEN "none" ELSE "prepare"
    /\ UNCHANGED <<pgDriver, pgDisk, pgRevision, pgEnforced, pgProps, pgIndex,
                   pgReady, pgHigh>>
    /\ UNCHANGED notPgVars

\* TmsGdaldem::prepare_impl: the dataset is probed and the tile index built
TmsGdaldem_prepare_impl ==
    /\ pgPc = "prepare_impl"
    /\ pgDriver = "tms-gdaldem"
    /\ \E opened \in BOOLEAN :
          IF opened THEN pgPc' = "writeTmp" /\ UNCHANGED pgCtx
          ELSE PgReturn
    /\ UNCHANGED <<pgDriver, pgDisk, pgRevision, pgEnforced, pgProps, pgIndex,
                   pgReady, pgCalls, pgHigh>>
    /\ UNCHANGED notPgVars

\* SurfaceSpheroid::prepare_impl: the properties and the tile index are
\* built afresh
SurfaceSpheroid_prepare_impl ==
    /\ pgPc = "prepare_impl"
    /\ pgDriver = "surface-spheroid"
    /\ pgProps' = pgRevision
    /\ pgPc' = "saveConfig"
    /\ UNCHANGED <<pgDriver, pgDisk, pgRevision, pgEnforced, pgIndex, pgReady,
                   pgCtx, pgCalls, pgHigh>>
    /\ UNCHANGED notPgVars

\* vts::tileset::saveTileSetIndex(index, filePath(vts::File::tileIndex))
SaveTileSetIndex_begin ==
    /\ pgPc = "saveTileSetIndex"
    /\ pgDisk' = [pgDisk EXCEPT !.tsindex = File("partial", 0)]
    /\ pgPc' = "saveTileSetIndex_write"
    /\ UNCHANGED <<pgDriver, pgRevision, pgEnforced, pgProps, pgIndex, pgReady,
                   pgCtx, pgCalls, pgHigh>>
    /\ UNCHANGED notPgVars

SaveTileSetIndex_end ==
    /\ pgPc = "saveTileSetIndex_write"
    /\ pgDisk' = [pgDisk EXCEPT !.tsindex = File("complete", 0)]
    /\ pgPc' = "writeTmp"
    /\ UNCHANGED <<pgDriver, pgRevision, pgEnforced, pgProps, pgIndex, pgReady,
                   pgCtx, pgCalls, pgHigh>>
    /\ UNCHANGED notPgVars

\* Generator::prepare after prepare_impl has returned: makeReady()
MakeReady ==
    /\ pgPc = "prepared"
    /\ pgReady' = TRUE
    /\ PgReturn
    /\ UNCHANGED <<pgDriver, pgDisk, pgRevision, pgEnforced, pgProps, pgIndex,
                   pgCalls, pgHigh>>
    /\ UNCHANGED notPgVars

NextPrepare ==
    \/ Boot
    \/ Crash
    \/ TmsGdaldem_construct
    \/ LoadFiles_begin
    \/ SaveConfig_begin
    \/ SaveConfig_end
    \/ LoadFiles_delivery
    \/ WriteTmp_begin
    \/ WriteTmp_end
    \/ Rename
    \/ OpenIndex
    \/ Prepare
    \/ TmsGdaldem_prepare_impl
    \/ SurfaceSpheroid_prepare_impl
    \/ SaveTileSetIndex_begin
    \/ SaveTileSetIndex_end
    \/ MakeReady

SpecPrepare == InitPrepare /\ [][NextPrepare]_vars

\* Files a reader finds under their final names.
PartialUnderFinalName ==
    \/ pgDisk.conf.state = "partial"
    \/ pgDisk.delivery.state = "partial"

\* C12: a tms-gdaldem or surface-spheroid generator is ready only if
\* delivery.index exists under its final name and the generator holds an
\* opened tile index, whether it became ready in its constructor or by
\* preparation.
C12_ReadyHasIndex ==
    pgReady => (pgIndex /\ exists(pgDisk.delivery))

\* C12 witnesses: a generator made ready by its constructor from the files on
\* disk, and one made ready by preparation.
C12_Witness ==
    /\ pgReady
    /\ pgIndex
    /\ pgCalls = << >>
    /\ pgPc = "idle"

\* C13: every write of delivery.index and tileset.conf goes through a
\* sibling .tmp and a rename, so no partially written file is ever found
\* under a final name.  tileset.conf is written in place.
C13_NoPartialFinal ==
    ~ PartialUnderFinalName

\* delivery.index alone is written through delivery.index.tmp.
DeliveryNeverPartial ==
    pgDisk.delivery.state # "partial"

AfterLoadFilesUpdate ==
    /\ pgCtx = "ctor"
    /\ pgPc \in {"delivery", "writeTmp", "writeTmp_write", "rename", "open"}

\* C15: the revision stored in tileset.conf never decreases (a complete
\* tileset.conf holds the highest revision ever stored), and once loadFiles
\* has updated the properties it is the maximum of the resource revision and
\* the revision stored before.
C15_RevisionMonotone ==
    /\ pgDisk.conf.state = "complete" => pgDisk.conf.revision = pgHigh
    /\ AfterLoadFilesUpdate =>
          /\ pgDisk.conf.state = "complete"
          /\ pgDisk.conf.revision = Max(pgRevision, pgHigh)
          /\ pgProps = pgDisk.conf.revision

\* C15 witness: loadFiles raised the stored revision to the resource's.
C15_Witness ==
    /\ AfterLoadFilesUpdate
    /\ pgDisk.conf.revision = pgRevision
    /\ pgRevision > 0
    /\ pgPc = "delivery"
    /\ pgDisk.conf.state = "complete"

(***************************************************************************)
(* Overview pyramid of generatevrtwo: makeSetup                            *)
(***************************************************************************)

MaxSourceSize == 9
MaxMinOvrSize == 3

Size2(width, height) == [width |-> width, height |-> height]

\* tile sizes the tool is run with
TileSizes == {Size2(2, 2), Size2(4, 3)}

\* int(std::round(n / 2.0)) of a non-negative int, rounding down
round_half_floor(n) == n \div 2

\* int(std::round(n / 2.0)) of a non-negative int: halves round up
round_half(n) == (n + 1) \div 2

\* the halve lambda of makeSetup
halve(size) == Size2(round_half(size.width), round_half(size.height))

\* the makeTiled lambda of makeSetup, for one level
tiled(size, ts) ==
    Size2((size.width + ts.width - 1) \div ts.width,
          (size.height + ts.height - 1) \div ts.height)

\* the makeTiled lambda of makeSetup
makeTiled(ovrSizes, ts) ==
    [i \in 1 .. Len(ovrSizes) |-> tiled(ovrSizes[i], ts)]

\* A halo of 6 pixels on every level.
widen_flat(ovrSizes, i, add) ==
    [sizes |-> [k \in 1 .. Len(ovrSizes) |->
                   Size2(ovrSizes[k].width + 6, ovrSizes[k].height)],
     add   |-> 12]

\* the reverse loop of makeSetup over ovrSizes, from level i up to the
\* finest: s.width += add; add *= 2
RECURSIVE widen(_, _, _)
widen(ovrSizes, i, add) ==
    IF i = 0
    THEN [sizes |-> ovrSizes, add |-> add]
    ELSE widen([ovrSizes EXCEPT ![i] = Size2(ovrSizes[i].width + add,
                                             ovrSizes[i].height)],
               i - 1, add * 2)

NoSetup == [size |-> Size2(0, 0), ovrSizes |-> << >>, ovrTiled |-> << >>,
            xPlus |-> 0]

InitOverview ==
    /\ ovDs \in {Size2(w, h) : w \in 1 .. MaxSourceSize,
                               h \in 1 .. MaxSourceSize}
    /\ ovConfig \in [minOvrSize : {Size2(w, h) : w \in 1 .. MaxMinOvrSize,
                                                 h \in 1 .. MaxMinOvrSize},
                     tileSize : TileSizes,
                     wrapx : BOOLEAN]
    /\ ovSize = ovDs
    /\ ovSetup = NoSetup
    /\ ovPc = "start"
    /\ IdleDiff
    /\ IdleLoad
    /\ IdleRt
    /\ IdleSv
    /\ IdlePg
    /\ IdleCov
    /\ IdleTi
    /\ IdleDm
    /\ IdleDd
    /\ IdleGn
    /\ IdleRr
    /\ IdleBs
    /\ IdleCt

\* makeSetup up to the loop: the setup takes the size of the dataset and
\* the size is halved once
MakeSetup_begin ==
    /\ ovPc = "start"
    /\ ovSetup' = [ovSetup EXCEPT !.size = ovDs]
    /\ ovSize' = halve(ovSize)
    /\ ovPc' = "loop"
    /\ UNCHANGED <<ovDs, ovConfig>>
    /\ UNCHANGED notOvVars

\* the while condition of makeSetup
loopCondition(size, config) ==
    \/ size.width >= config.minOvrSize.width
    \/ size.height >= config.minOvrSize.height

\* A loop without the special case.
specialCase_never(size, config) == FALSE

\* the special case that ends the loop after a level was listed
specialCase(size, config) ==
    \/ size.width = config.minOvrSize.width
    \/ size.height = config.minOvrSize.height

\* one turn of the while loop of makeSetup
MakeSetup_level ==
    /\ ovPc = "loop"
    /\ loopCondition(ovSize, ovConfig)
    /\ ovSetup' = [ovSetup EXCEPT !.ovrSizes = Append(@, ovSize)]
    /\ IF specialCase(ovSize, ovConfig)
       THEN ovPc' = "levels" /\ UNCHANGED ovSize
       ELSE ovPc' = "loop" /\ ovSize' = halve(ovSize)
    /\ UNCHANGED <<ovDs, ovConfig>>
    /\ UNCHANGED notOvVars

\* the while loop of makeSetup ends on its condition
MakeSetup_exit ==
    /\ ovPc = "loop"
    /\ ~ loopCondition(ovSize, ovConfig)
    /\ ovPc' = "levels"
    /\ UNCHANGED <<ovDs, ovConfig, ovSize, ovSetup>>
    /\ UNCHANGED notOvVars

\* makeSetup without wrapx: the tile grids are computed and the setup
\* returned
MakeSetup_plain ==
    /\ ovPc = "levels"
    /\ ~ ovConfig.wrapx
    /\ ovSetup' = [ovSetup EXCEPT
                     !.ovrTiled = makeTiled(ovSetup.ovrSizes,
                                            ovConfig.tileSize)]
    /\ ovPc' = "done"
    /\ UNCHANGED <<ovDs, ovConfig, ovSize>>
    /\ UNCHANGED notOvVars

\* makeSetup with wrapx: the levels and the dataset are widened, then the
\* tile grids are computed
MakeSetup_wrapx ==
    /\ ovPc = "levels"
    /\ ovConfig.wrapx
    /\ LET w == widen(ovSetup.ovrSizes, Len(ovSetup.ovrSizes), 6) IN
          ovSetup' = [size |-> Size2(ovSetup.size.width + w.add,
                                     ovSetup.size.height),
                      ovrSizes |-> w.sizes,
                      ovrTiled |-> makeTiled(w.sizes, ovConfig.tileSize),
                      xPlus |-> w.add \div 2]
    /\ ovPc' = "done"
    /\ UNCHANGED <<ovDs, ovConfig, ovSize>>
    /\ UNCHANGED notOvVars

NextOverview ==
    \/ MakeSetup_begin
    \/ MakeSetup_level
    \/ MakeSetup_exit
    \/ MakeSetup_plain
    \/ MakeSetup_wrapx

SpecOverview == InitOverview /\ [][NextOverview]_vars

\* n / 2 rounded to the nearest integer, halves away from zero
RoundedHalf(n) == CHOOSE k \in 0 .. n : 2 * k = n \/ 2 * k = n + 1

RoundedHalfSize(size) ==
    Size2(RoundedHalf(size.width), RoundedHalf(size.height))

\* The overview sizes are listed and not yet widened.
BeforeHalo ==
    \/ ovPc \in {"loop", "levels"}
    \/ ovPc = "done" /\ ~ ovConfig.wrapx

\* makeSetup has left its loop and has not widened the levels.
LevelsListed ==
    \/ ovPc = "levels"
    \/ ovPc = "done" /\ ~ ovConfig.wrapx

\* C16: before any halo is added the first overview is the rounded half of
\* the source and every further one the rounded half of the one before;
\* every listed level reaches minOvrSize in width or in height, no level
\* follows one that equals minOvrSize in a dimension, and the list ends
\* either on such a level or when the next halving is below minOvrSize in
\* both dimensions.
C16_OverviewSizes ==
    LET L == ovSetup.ovrSizes
        N == Len(L)
        min == ovConfig.minOvrSize
    IN /\ BeforeHalo =>
             /\ N >= 1 => L[1] = RoundedHalfSize(ovDs)
             /\ \A i \in 1 .. N - 1 : L[i + 1] = RoundedHalfSize(L[i])
             /\ \A i \in 1 .. N :
                   L[i].width >= min.width \/ L[i].height >= min.height
             /\ \A i \in 1 .. N - 1 :
                   L[i].width # min.width /\ L[i].height # min.height
       /\ LevelsListed =>
             LET next == IF N = 0 THEN RoundedHalfSize(ovDs)
                         ELSE RoundedHalfSize(L[N])
             IN \/ /\ N >= 1
                   /\ L[N].width = min.width \/ L[N].height = min.height
                \/ /\ next.width < min.width
                   /\ next.height < min.height

\* C16 witness: several levels were listed and the list ended on the level
\* that reached minOvrSize exactly, the source having odd sizes.
C16_Witness ==
    /\ ovPc = "levels"
    /\ Len(ovSetup.ovrSizes) >= 2
    /\ ovDs.width % 2 = 1
    /\ ovSetup.ovrSizes[Len(ovSetup.ovrSizes)].width
          = ovConfig.minOvrSize.width

\* least number of tiles of the given length covering n pixels
TilesAcross(n, length) ==
    CHOOSE k \in 0 .. n : k * length >= n /\ (k - 1) * length < n

\* C17: with wrapx, of N levels the level i (0 the finest) is widened by
\* 6 * 2^(N-1-i) pixels and the dataset by 6 * 2^N, xPlus is 3 * 2^N,
\* heights stay, every halo is twice the halo of the next coarser level and
\* the tile grids are those of the widened levels.
C17_WrapxHalo ==
    [][(ovPc = "levels" /\ ovPc' = "done" /\ ovConfig.wrapx) =>
         LET old == ovSetup.ovrSizes
             new == ovSetup'.ovrSizes
             N == Len(old)
             halo(i) == new[i].width - old[i].width
             ts == ovConfig.tileSize
         IN /\ Len(new) = N
            /\ \A i \in 1 .. N :
                  /\ halo(i) = 6 * Pow2(N - i)
                  /\ new[i].height = old[i].height
            /\ \A i \in 1 .. N - 1 : halo(i) = 2 * halo(i + 1)
            /\ ovSetup'.size.width = ovDs.width + 6 * Pow2(N)
            /\ ovSetup'.size.height = ovDs.height
            /\ ovSetup'.xPlus = 3 * Pow2(N)
            /\ Len(ovSetup'.ovrTiled) = N
            /\ \A i \in 1 .. N :
                  /\ ovSetup'.ovrTiled[i].width
                        = TilesAcross(new[i].width, ts.width)
                  /\ ovSetup'.ovrTiled[i].height
                        = TilesAcross(new[i].height, ts.height)]_vars

\* C17 witness: a dataset with at least three overview levels was widened.
C17_Witness ==
    /\ ovPc = "done"
    /\ ovConfig.wrapx
    /\ Len(ovSetup.ovrSizes) >= 3
    /\ ovSetup.xPlus = 3 * Pow2(Len(ovSetup.ovrSizes))
    /\ ovSetup.size.width = ovDs.width + 2 * ovSetup.xPlus

(***************************************************************************)
(* Overview pyramid of generatevrtwo: createOverview                       *)
(***************************************************************************)

\* bands of the dataset, zero-based as in addSimpleSource
Bands == {0, 1}

\* sizes of the levels createOverview is run on
LevelSizes == {Size2(w, h) : w \in {1, 2, 3, 4}, h \in {1, 2, 3, 4}}

\* What a warped tile holds: the bands with a pixel that differs from the
\* background colour, and its mask.
Contents == [differs : SUBSET Bands, mask : {"nodata", "zero", "nonzero"}]

Unwarped == [differs |-> {}, mask |-> "unwarped"]

\* An emptyTile that keeps every tile.
emptyTile_never(level, content) == FALSE

\* emptyTile
emptyTile(level, content) ==
    IF level.background
    THEN \A b \in Bands : b \notin content.differs
    ELSE IF content.mask = "nodata" THEN FALSE
    ELSE content.mask # "nonzero"

\* math::Point2i tile(i % tiled.width, i / tiled.width)
tileOf(level, i) == [x |-> i % level.tiled.width, y |-> i \div level.tiled.width]

\* A tile grid whose last column and row are as large as the others.
pxSize_whole(level, tile) == level.tileSize

\* createOverview: pxSize of a tile, the last column and row taking lts
pxSize(level, tile) ==
    LET ts == level.tileSize
        lts == Size2(level.size.width - (level.tiled.width - 1) * ts.width,
                     level.size.height - (level.tiled.height - 1) * ts.height)
    IN Size2(IF tile.x = level.tiled.width - 1 THEN lts.width ELSE ts.width,
             IF tile.y = level.tiled.height - 1 THEN lts.height
             ELSE ts.height)

\* Rect drect(Point2i(tile(0) * ts.width, tile(1) * ts.height), pxSize)
drect(level, tile) ==
    [origin |-> [x |-> tile.x * level.tileSize.width,
                 y |-> tile.y * level.tileSize.height],
     size |-> pxSize(level, tile)]

\* "%d-%d.tif" % tile(0) % tile(1)
tileName(tile) == <<tile.x, "-", tile.y, ".tif">>

\* the addSimpleSource loop over the bands of the VRT
tileSources(level, tile) ==
    [k \in 1 .. Cardinality(Bands) |->
        [band |-> k - 1, filename |-> tileName(tile), srcBand |-> k - 1,
         dst |-> drect(level, tile)]]

NoTile == [done |-> FALSE, content |-> Unwarped, written |-> 0,
           sources |-> << >>, maskSources |-> 0]

tileIndices(level) == 0 .. (level.tiled.width * level.tiled.height - 1)

InitCreateOverview ==
    /\ \E size \in LevelSizes, ts \in TileSizes, bg \in BOOLEAN,
          maskType \in {"nodata", "band"} :
          covLevel = [size |-> size, tileSize |-> ts,
                      tiled |-> tiled(size, ts), background |-> bg,
                      maskType |-> maskType]
    /\ covBackground = << >>
    /\ covTile = [i \in tileIndices(covLevel) |-> NoTile]
    /\ covPc = "start"
    /\ IdleDiff
    /\ IdleLoad
    /\ IdleRt
    /\ IdleSv
    /\ IdlePg
    /\ IdleOv
    /\ IdleTi
    /\ IdleDm
    /\ IdleDd
    /\ IdleGn
    /\ IdleRr
    /\ IdleBs
    /\ IdleCt

\* createOverview up to the tile loop: the VRT is created and the
\* background, when configured, mapped into every band
CreateOverview_begin ==
    /\ covPc = "start"
    /\ covBackground' = IF covLevel.background
                        THEN [k \in 1 .. Cardinality(Bands) |->
                                 [band |-> k - 1, filename |-> "bg.solid"]]
                        ELSE << >>
    /\ covPc' = "tiles"
    /\ UNCHANGED <<covLevel, covTile>>
    /\ UNCHANGED notCovVars

\* one turn of the tile loop for a tile that warped to nothing
ProcessTile_empty ==
    /\ covPc = "tiles"
    /\ \E i \in tileIndices(covLevel), content \in Contents :
          /\ ~ covTile[i].done
          /\ emptyTile(covLevel, content)
          /\ covTile' = [covTile EXCEPT ![i] =
                            [@ EXCEPT !.done = TRUE, !.content = content]]
    /\ UNCHANGED <<covLevel, covBackground, covPc>>
    /\ UNCHANGED notCovVars

\* one turn of the tile loop for a tile with content: the tile is stored
\* and added to the VRT
ProcessTile_valid ==
    /\ covPc = "tiles"
    /\ \E i \in tileIndices(covLevel), content \in Contents :
          /\ ~ covTile[i].done
          /\ ~ emptyTile(covLevel, content)
          /\ covTile' = [covTile EXCEPT ![i] =
                [done |-> TRUE, content |-> content,
                 written |-> @.written + 1,
                 sources |-> @.sources
                                \o tileSources(covLevel, tileOf(covLevel, i)),
                 maskSources |-> @.maskSources
                      + (IF covLevel.maskType = "band" THEN 1 ELSE 0)]]
    /\ UNCHANGED <<covLevel, covBackground, covPc>>
    /\ UNCHANGED notCovVars

\* ovr.flush() after the loop
CreateOverview_flush ==
    /\ covPc = "tiles"
    /\ \A i \in tileIndices(covLevel) : covTile[i].done
    /\ covPc' = "flushed"
    /\ UNCHANGED <<covLevel, covBackground, covTile>>
    /\ UNCHANGED notCovVars

NextCreateOverview ==
    \/ CreateOverview_begin
    \/ ProcessTile_empty
    \/ ProcessTile_valid
    \/ CreateOverview_flush

SpecCreateOverview == InitCreateOverview /\ [][NextCreateOverview]_vars

\* The warped content of a tile is empty: all bands are the background
\* colour when one is configured, otherwise the mask has no non-zero pixel.
WarpedEmpty(level, content) ==
    IF level.background
    THEN content.differs = {}
    ELSE content.mask = "zero"

\* The rectangle of a tile in its level: it starts at the tile's multiple
\* of the tile size and ends with the tile or with the level.
OwnRect(level, tile) ==
    LET x0 == tile.x * level.tileSize.width
        y0 == tile.y * level.tileSize.height
        fit(from, length, limit) ==
            IF from + length <= limit THEN length ELSE limit - from
    IN [origin |-> [x |-> x0, y |-> y0],
        size |-> Size2(fit(x0, level.tileSize.width, level.size.width),
                       fit(y0, level.tileSize.height, level.size.height))]

WrittenTiles == {i \in tileIndices(covLevel) : covTile[i].written > 0}

\* C18: an empty tile is not written and has no source in the VRT of the
\* level; a tile with content is written once and has one source per band,
\* from its own file into its own rectangle.
C18_EmptyTilesSkipped ==
    \A i \in tileIndices(covLevel) :
        LET t == covTile[i]
            tile == tileOf(covLevel, i)
        IN t.done =>
              IF WarpedEmpty(covLevel, t.content)
              THEN t.written = 0 /\ t.sources = << >> /\ t.maskSources = 0
              ELSE /\ t.written = 1
                   /\ \A b \in Bands :
                         Cardinality({k \in 1 .. Len(t.sources) :
                                         t.sources[k].band = b}) = 1
                   /\ \A k \in 1 .. Len(t.sources) :
                         /\ t.sources[k].dst = OwnRect(covLevel, tile)
                         /\ t.sources[k].filename = tileName(tile)
                         /\ \A j \in tileIndices(covLevel) \ {i} :
                               t.sources[k].dst
                                  # OwnRect(covLevel, tileOf(covLevel, j))

\* C18 witness: a level of 2 x 2 tiles with one empty quadrant ended with 3
\* tiles written, without a background colour.
C18_Witness ==
    /\ covPc = "flushed"
    /\ covLevel.tiled = Size2(2, 2)
    /\ ~ covLevel.background
    /\ Cardinality({i \in tileIndices(covLevel) :
                       WarpedEmpty(covLevel, covTile[i].content)}) = 1
    /\ Cardinality(WrittenTiles) = 3

(***************************************************************************)
(* Tile index built by SurfaceSpheroid::prepare_impl                       *)
(***************************************************************************)

NavtileMaxLod == 10

\* LODs of the reference frame looked at, around the navtile limit
TiLods == (NavtileMaxLod - 1) .. (NavtileMaxLod + 2)

\* blocks metatileBlocks cuts every LOD into
TiBlocks == {0, 1}

\* Flags without navtiles.
blockFlags_noNavtile(lod, lodRange) == {"mesh", "watertight"}

\* the flags prepare_impl computes for a productive block
blockFlags(lod, lodRange) ==
    {"mesh", "watertight"}
       \cup (IF lod = lodRange.min \/ lod <= NavtileMaxLod
             THEN {"navtile"} ELSE {})

InitTileIndex ==
    /\ tiLodRange \in {[min |-> a, max |-> b] :
                          a \in TiLods, b \in TiLods}
    /\ tiLodRange.min <= tiLodRange.max
    /\ tiProductive \in [TiLods \X TiBlocks -> BOOLEAN]
    /\ tiIndex = [t \in TiLods \X TiBlocks |-> {}]
    /\ tiPos = [lod |-> tiLodRange.min, block |-> 0]
    /\ IdleDiff
    /\ IdleLoad
    /\ IdleRt
    /\ IdleSv
    /\ IdlePg
    /\ IdleOv
    /\ IdleCov
    /\ IdleDm
    /\ IdleDd
    /\ IdleGn
    /\ IdleRr
    /\ IdleBs
    /\ IdleCt

\* the loops move on to the next block, or to the next LOD
nextPos(pos) ==
    IF pos.block + 1 \in TiBlocks
    THEN [pos EXCEPT !.block = pos.block + 1]
    ELSE [lod |-> pos.lod + 1, block |-> 0]

\* one turn of the block loop on a productive block: ti.set(lod, view, flags)
TileIndex_set ==
    /\ in(tiPos.lod, tiLodRange)
    /\ (tiProductive[<<tiPos.lod, tiPos.block>>]
           /\ in(tiPos.lod, tiLodRange))
    /\ tiIndex' = [tiIndex EXCEPT ![<<tiPos.lod, tiPos.block>>] =
                      blockFlags(tiPos.lod, tiLodRange)]
    /\ tiPos' = nextPos(tiPos)
    /\ UNCHANGED <<tiLodRange, tiProductive>>
    /\ UNCHANGED notTiVars

\* one turn of the block loop on a block that is not productive
TileIndex_skip ==
    /\ in(tiPos.lod, tiLodRange)
    /\ ~ (tiProductive[<<tiPos.lod, tiPos.block>>]
             /\ in(tiPos.lod, tiLodRange))
    /\ tiPos' = nextPos(tiPos)
    /\ UNCHANGED <<tiLodRange, tiProductive, tiIndex>>
    /\ UNCHANGED notTiVars

NextTileIndex ==
    \/ TileIndex_set
    \/ TileIndex_skip

SpecTileIndex == InitTileIndex /\ [][NextTileIndex]_vars

\* The LOD loop has ended.
TileIndexBuilt == tiPos.lod > tiLodRange.max

\* the blocks the loops have gone through
Processed(t) ==
    \/ TileIndexBuilt
    \/ t[1] < tiPos.lod
    \/ t[1] = tiPos.lod /\ t[2] < tiPos.block

\* C19: every tile of a productive block within lodRange carries mesh and
\* watertight, and navtile exactly when its LOD is at most 10 or is the top
\* LOD of the resource; the other tiles carry no flags.
C19_NavtileTopOrLow ==
    \A t \in TiLods \X TiBlocks :
        IF in(t[1], tiLodRange) /\ tiProductive[t] /\ Processed(t)
        THEN /\ {"mesh", "watertight"} \subseteq tiIndex[t]
             /\ ("navtile" \in tiIndex[t])
                   <=> (t[1] <= NavtileMaxLod \/ t[1] = tiLodRange.min)
        ELSE tiIndex[t] = {}

\* C19 as stated: navtile exactly when the LOD is at most 10.
C19_Original ==
    \A t \in TiLods \X TiBlocks :
        IF in(t[1], tiLodRange) /\ tiProductive[t] /\ Processed(t)
        THEN /\ {"mesh", "watertight"} \subseteq tiIndex[t]
             /\ ("navtile" \in tiIndex[t]) <=> (t[1] <= NavtileMaxLod)
        ELSE tiIndex[t] = {}

\* C19 witness: a resource whose top LOD is above 10 was prepared; its top
\* LOD carries navtile and the LOD below does not.
C19_Witness ==
    /\ TileIndexBuilt
    /\ tiLodRange.min = NavtileMaxLod + 1
    /\ tiLodRange.max = NavtileMaxLod + 2
    /\ tiIndex[<<NavtileMaxLod + 1, 0>>] = {"mesh", "watertight", "navtile"}
    /\ tiIndex[<<NavtileMaxLod + 2, 0>>] = {"mesh", "watertight"}
    /\ tiIndex[<<NavtileMaxLod + 2, 1>>] = {}

(***************************************************************************)
(* Daemon::start and Daemon::cleanup                                       *)
(***************************************************************************)

\* resources the registry makes generators for
DaemonResources == {"r1", "r2", "r3"}

\* Daemon::start after the guard was made, statement by statement
startSteps ==
    << [op |-> "create", what |-> "gdalWarper"],
       [op |-> "create", what |-> "resourceBackend"],
       [op |-> "create", what |-> "generators"],
       [op |-> "create", what |-> "http"],
       [op |-> "call", what |-> "http.startClient"],
       [op |-> "create", what |-> "core"],
       [op |-> "call", what |-> "http.listen"],
       [op |-> "call", what |-> "http.startServer"] >>

\* A cleanup that lets go of the warper first.
cleanupOrder_warperFirst ==
    <<"gdalWarper", "http", "core", "generators", "resourceBackend">>

\* Daemon::cleanup, statement by statement
cleanupOrder ==
    <<"http", "core", "generators", "resourceBackend", "gdalWarper">>

InitDaemon ==
    /\ dmPc = "starting"
    /\ dmStep = 1
    /\ dmAlive = {}
    /\ dmRegistry = {}
    /\ dmFailed = 0
    /\ IdleDiff
    /\ IdleLoad
    /\ IdleRt
    /\ IdleSv
    /\ IdlePg
    /\ IdleOv
    /\ IdleCov
    /\ IdleTi
    /\ IdleDd
    /\ IdleGn
    /\ IdleRr
    /\ IdleBs
    /\ IdleCt

\* the next statement of Daemon::start succeeds
Start_step ==
    /\ dmPc = "starting"
    /\ dmStep <= Len(startSteps)
    /\ dmAlive' = IF startSteps[dmStep].op = "create"
                  THEN dmAlive \cup {startSteps[dmStep].what}
                  ELSE dmAlive
    /\ dmStep' = dmStep + 1
    /\ UNCHANGED <<dmPc, dmRegistry, dmFailed>>
    /\ UNCHANGED notDmVars

\* the next statement of Daemon::start throws: the guard goes out of scope
\* and ~Stopper calls cleanup
Start_throw ==
    /\ dmPc = "starting"
    /\ dmStep <= Len(startSteps)
    /\ dmFailed' = dmStep
    /\ dmPc' = "cleanup"
    /\ dmStep' = 1
    /\ UNCHANGED <<dmAlive, dmRegistry>>
    /\ UNCHANGED notDmVars

\* Daemon::start returns the guard
Start_return ==
    /\ dmPc = "starting"
    /\ dmStep > Len(startSteps)
    /\ dmPc' = "running"
    /\ UNCHANGED <<dmStep, dmAlive, dmRegistry, dmFailed>>
    /\ UNCHANGED notDmVars

\* The generator registry, driven by the core, follows the catalogue: a
\* generator is made or removed.
RegistryUpdate ==
    /\ {"generators", "core"} \subseteq dmAlive
    /\ \E r \in DaemonResources :
          dmRegistry' = IF r \in dmRegistry THEN dmRegistry \ {r}
                        ELSE dmRegistry \cup {r}
    /\ UNCHANGED <<dmPc, dmStep, dmAlive, dmFailed>>
    /\ UNCHANGED notDmVars

\* The service ends: the guard returned by start is released and ~Stopper
\* calls cleanup.
Stop ==
    /\ dmPc = "running"
    /\ dmPc' = "cleanup"
    /\ dmStep' = 1
    /\ UNCHANGED <<dmAlive, dmRegistry, dmFailed>>
    /\ UNCHANGED notDmVars

\* the next statement of Daemon::cleanup; the generators go with their
\* registry
Cleanup_step ==
    /\ dmPc = "cleanup"
    /\ dmStep <= Len(cleanupOrder)
    /\ dmAlive' = dmAlive \ {cleanupOrder[dmStep]}
    /\ dmRegistry' = IF cleanupOrder[dmStep] = "generators" THEN {}
                     ELSE dmRegistry
    /\ dmStep' = dmStep + 1
    /\ UNCHANGED <<dmPc, dmFailed>>
    /\ UNCHANGED notDmVars

\* Daemon::cleanup returns
Cleanup_return ==
    /\ dmPc = "cleanup"
    /\ dmStep > Len(cleanupOrder)
    /\ dmPc' = "stopped"
    /\ UNCHANGED <<dmStep, dmAlive, dmRegistry, dmFailed>>
    /\ UNCHANGED notDmVars

NextDaemon ==
    \/ Start_step
    \/ Start_throw
    \/ Start_return
    \/ RegistryUpdate
    \/ Stop
    \/ Cleanup_step
    \/ Cleanup_return

SpecDaemon == InitDaemon /\ [][NextDaemon]_vars

\* what was made with or on top of the warper farm
WarperUsers == {"resourceBackend", "generators", "core", "http"}

\* C20: the warper farm outlives every generator: whenever the resource
\* backend, the generator registry or one of its generators, the core or
\* the HTTP server exists, the warper farm exists; so it is created before
\* and destroyed after all of them, also when start fails halfway.
C20_WarperOutlives ==
    (dmAlive \cap WarperUsers # {} \/ dmRegistry # {})
        => "gdalWarper" \in dmAlive

\* C20 witness: start failed at http.listen, after the core was made;
\* cleanup has destroyed everything but the warper farm.
C20_Witness ==
    /\ dmPc = "cleanup"
    /\ dmFailed = 7
    /\ dmAlive = {"gdalWarper"}
    /\ dmRegistry = {}
    /\ dmStep = Len(cleanupOrder)

\* A .meta request on the vts interface of a TMS generator, with its lod
\* inside lodRange, has been answered.
MetatileAnswered ==
    /\ svPc = "done"
    /\ svGen.driver \in TmsDrivers
    /\ svReq.iface = "vts"
    /\ svReq.type = "metatile"
    /\ checkRanges(svGen.resource, svReq.tileId, "lod")

\* C21: a .meta request with lod inside lodRange goes to generateMetatile
\* when the generator provides metatiles (hasMetatiles() is true), and is
\* refused with NotFound, without entering generateMetatile, only when it
\* does not.
C21_MetatileDispatch ==
    MetatileAnswered =>
        IF hasMetatiles(svGen)
        THEN svEntered = "generateMetatile"
        ELSE svEntered = "none" /\ svOut = sink_error("NotFound")

(***************************************************************************)
(* Definition diffs and TmsGdaldem::transparent                            *)
(***************************************************************************)

\* TmsRaster::changed_impl
TmsRaster_changed_impl(d, o) ==
    IF d.dataset # o.dataset THEN "yes"
    ELSE IF d.erodeMask # o.erodeMask THEN "withRevisionBump"
    ELSE IF d.format # o.format THEN "safely"
    ELSE TmsCommon_changed_impl(d, o)

\* TmsNormalMap::changed_impl of definition/tms-normalmap.cpp (the
\* TmsRaster-based definition, with zFactor)
TmsNormalMap_changed_impl_TmsRaster(d, o) ==
    IF d.landcover # o.landcover \/ d.zFactor # o.zFactor
    THEN "withRevisionBump"
    ELSE TmsRaster_changed_impl(d, o)

\* TmsSpecularMap::changed_impl
TmsSpecularMap_changed_impl(d, o) ==
    IF d.classdef # o.classdef THEN "yes"
    ELSE IF d.shininessBits # o.shininessBits THEN "yes"
    ELSE TmsRaster_changed_impl(d, o)

\* DefinitionBase::changed on the three TMS definitions
changed_impl(d, o) ==
    IF d.class = "tms-gdaldem" THEN TmsGdaldem_changed_impl(d, o)
    ELSE IF d.class = "tms-normalmap"
    THEN TmsNormalMap_changed_impl_TmsRaster(d, o)
    ELSE TmsSpecularMap_changed_impl(d, o)

\* std::find(first, last, value) on a list: the position found, or the end
std_find(list, value) ==
    IF \E i \in 1 .. Len(list) : list[i] = value
    THEN CHOOSE i \in 1 .. Len(list) :
            list[i] = value /\ \A j \in 1 .. i - 1 : list[j] # value
    ELSE Len(list) + 1

\* TmsGdaldem::transparent
transparent(def) ==
    /\ def.processing = "color_relief"
    /\ std_find(def.processingOptions, "-alpha") # 1

\* TmsGdaldem::format
TmsGdaldem_format(def) == IF transparent(def) THEN "png" ELSE def.format

\* the fields of the definitions and the values the catalogue gives them
FieldValues ==
    [ dataset |-> {"dem-a", "dem-b"},
      processing |-> {"hillshade", "slope", "color_relief"},
      processingOptions |-> {<< >>, <<"-alpha">>, <<"-z">>,
                             <<"-z", "-alpha">>},
      colorFile |-> {"none", "ramp.txt"},
      resampling |-> {"dem", "cubic"},
      erodeMask |-> BOOLEAN,
      poProgressions |-> {<< >>, <<"p">>},
      format |-> {"jpg", "webp"},
      options |-> {"none", "opts"},
      landcover |-> {"none", "lc"},
      zFactor |-> {1, 2},
      classdef |-> {"c1", "c2"},
      shininessBits |-> {4, 5} ]

\* the fields each definition class reads from the catalogue
FieldsOf(class) ==
    IF class = "tms-gdaldem"
    THEN {"dataset", "processing", "processingOptions", "colorFile",
          "resampling", "erodeMask", "poProgressions", "format", "options"}
    ELSE IF class = "tms-normalmap"
    THEN {"dataset", "erodeMask", "format", "options", "landcover",
          "zFactor"}
    ELSE {"dataset", "erodeMask", "format", "options", "classdef",
          "shininessBits"}

\* a definition as constructed for its class
DefaultDefinition(class) ==
    [ class |-> class, dataset |-> "dem-a", processing |-> "hillshade",
      processingOptions |-> << >>, colorFile |-> "none",
      resampling |-> "dem", erodeMask |-> FALSE, poProgressions |-> << >>,
      format |-> "jpg", options |-> "none", landcover |-> "none",
      zFactor |-> 1, classdef |-> "c1", shininessBits |-> 4 ]

InitDefinitionDiff ==
    /\ \E class \in TmsDrivers :
          /\ ddOld = DefaultDefinition(class)
          /\ ddNew = DefaultDefinition(class)
    /\ ddResult = "pending"
    /\ IdleDiff
    /\ IdleLoad
    /\ IdleRt
    /\ IdleSv
    /\ IdlePg
    /\ IdleOv
    /\ IdleCov
    /\ IdleTi
    /\ IdleDm
    /\ IdleGn
    /\ IdleRr
    /\ IdleBs
    /\ IdleCt

\* The catalogue entry is edited: one field of the definition changes.
ReloadField ==
    /\ \E f \in FieldsOf(ddNew.class) :
          \E v \in FieldValues[f] : ddNew' = [ddNew EXCEPT ![f] = v]
    /\ ddResult' = "pending"
    /\ UNCHANGED ddOld
    /\ UNCHANGED notDdVars

\* The reloaded definition is compared with the running one.
DiffDefinitions ==
    /\ ddResult = "pending"
    /\ ddResult' = changed_impl(ddNew, ddOld)
    /\ UNCHANGED <<ddOld, ddNew>>
    /\ UNCHANGED notDdVars

NextDefinitionDiff ==
    \/ ReloadField
    \/ DiffDefinitions

SpecDefinitionDiff == InitDefinitionDiff /\ [][NextDefinitionDiff]_vars

\* "-alpha" is among the processing options, at any position.
HasAlpha(def) ==
    \E i \in 1 .. Len(def.processingOptions) :
        def.processingOptions[i] = "-alpha"

\* C22: a tms-gdaldem resource is transparent exactly when its processing
\* is color_relief and its processing options contain "-alpha" at any
\* position, and it is served as png when transparent and in its configured
\* format otherwise.
C22_TransparentIffAlpha ==
    ddNew.class = "tms-gdaldem" =>
        LET expected == ddNew.processing = "color_relief" /\ HasAlpha(ddNew)
        IN /\ transparent(ddNew) <=> expected
           /\ TmsGdaldem_format(ddNew)
                 = (IF expected THEN "png" ELSE ddNew.format)

\* the fields in which the reloaded definition differs from the running one
ChangedFields == {f \in FieldsOf(ddNew.class) : ddNew[f] # ddOld[f]}

\* the fields of a tms-gdaldem definition whose change invalidates what was
\* generated
GdaldemBumpFields ==
    {"processing", "processingOptions", "colorFile", "resampling",
     "erodeMask", "poProgressions"}

\* C23: TmsGdaldem::changed_impl answers yes when the dataset differs,
\* otherwise revision-bump when processing, processingOptions, colorFile,
\* resampling, erodeMask or poProgressions differ, otherwise safe when the
\* format differs, otherwise what the common TMS diff answers.
C23_GdaldemClasses ==
    (ddNew.class = "tms-gdaldem" /\ ddResult # "pending") =>
        ddResult =
           (IF "dataset" \in ChangedFields THEN "yes"
            ELSE IF ChangedFields \cap GdaldemBumpFields # {}
            THEN "withRevisionBump"
            ELSE IF "format" \in ChangedFields THEN "safely"
            ELSE TmsCommon_changed_impl(ddNew, ddOld))

\* C23 witness: a hillshade resource reloaded as slope, nothing else
\* changed, was classified revision-bump.
C23_Witness ==
    /\ ddNew.class = "tms-gdaldem"
    /\ ddOld.processing = "hillshade"
    /\ ddNew.processing = "slope"
    /\ ChangedFields = {"processing"}
    /\ ddResult = "withRevisionBump"

\* yes over revision-bump over safe over no
Severity(c) ==
    IF c = "yes" THEN 3
    ELSE IF c = "withRevisionBump" THEN 2
    ELSE IF c = "safely" THEN 1
    ELSE 0

\* the class of a change of the field f alone
ClassOfField(f) ==
    changed_impl([ddOld EXCEPT ![f] = ddNew[f]], ddOld)

\* C28: a definition diff is as severe as the most severe of the changed
\* fields, each taken alone: for tms-normalmap a change of landcover or
\* zFactor together with the dataset is yes.
C28_MostSevere ==
    ddResult # "pending" =>
        \A f \in ChangedFields :
            Severity(ddResult) >= Severity(ClassOfField(f))

\* The other definitions do not under-report.
MostSevereButNormalMap ==
    ddNew.class # "tms-normalmap" => C28_MostSevere

(***************************************************************************)
(* generate of generatevrtwo: the loop over the overview levels            *)
(***************************************************************************)

\* numbers of overview levels a setup comes with
LevelCounts == {0, 1, 2, 3, 4}

\* numbers of bands of a dataset
BandCounts == {1, 2, 3}

\* setup.outputDataset: output / "dataset"
DatasetPath == <<"dataset", 0>>

\* output / dir / "ovr.vrt" of level i
OvrPath(i) == <<"ovr.vrt", i>>

VrtPaths == {DatasetPath} \cup {OvrPath(i) : i \in LevelCounts}

\* An addOverview that edits the VRT the level was warped from.
overviewTarget_input(outputDataset, inputPath) == inputPath

\* the VRT generate hands to addOverview
overviewTarget(outputDataset, inputPath) == outputDataset

\* addOverview: an Overview element is appended to every VRTRasterBand
addOverview(overviews, bands, vrtPath, ovrPath) ==
    [overviews EXCEPT ![vrtPath] =
        @ \o [b \in 1 .. bands |-> [band |-> b, source |-> ovrPath]]]

InitGenerate ==
    /\ gnLevels \in LevelCounts
    /\ gnBands \in BandCounts
    /\ gnPc = "createOverview"
    /\ gnLevel = 0
    /\ gnInput = DatasetPath
    /\ gnWarpedFrom = << >>
    /\ gnWritten = {}
    /\ gnOverviews = [v \in VrtPaths |-> << >>]
    /\ IdleDiff
    /\ IdleLoad
    /\ IdleRt
    /\ IdleSv
    /\ IdlePg
    /\ IdleOv
    /\ IdleCov
    /\ IdleTi
    /\ IdleDm
    /\ IdleDd
    /\ IdleRr
    /\ IdleBs
    /\ IdleCt

\* generate enters createOverview for level i: the level's VRT is created
\* and its tiles are being warped from inputPath
Generate_createOverview ==
    /\ gnPc = "createOverview"
    /\ gnLevel < gnLevels
    /\ gnWarpedFrom' = Append(gnWarpedFrom, gnInput)
    /\ gnPc' = "tiles"
    /\ UNCHANGED <<gnLevels, gnBands, gnLevel, gnInput, gnWritten,
                   gnOverviews>>
    /\ UNCHANGED notGnVars

\* createOverview returns: all tiles are stored and the level's VRT flushed
Generate_levelWritten ==
    /\ gnPc = "tiles"
    /\ gnWritten' = gnWritten \cup {gnLevel}
    /\ gnPc' = "addOverview"
    /\ UNCHANGED <<gnLevels, gnBands, gnLevel, gnInput, gnWarpedFrom,
                   gnOverviews>>
    /\ UNCHANGED notGnVars

\* addOverview(setup.outputDataset, path); inputPath = output / path
Generate_addOverview ==
    /\ gnPc = "addOverview"
    /\ gnOverviews' = addOverview(gnOverviews, gnBands,
                                  overviewTarget(DatasetPath, gnInput),
                                  OvrPath(gnLevel))
    /\ gnInput' = OvrPath(gnLevel)
    /\ gnLevel' = gnLevel + 1
    /\ gnPc' = "createOverview"
    /\ UNCHANGED <<gnLevels, gnBands, gnWarpedFrom, gnWritten>>
    /\ UNCHANGED notGnVars

\* an I/O or GDAL failure leaves generate with what is on disk
Generate_throw ==
    /\ gnPc \in {"tiles", "addOverview"}
    /\ gnPc' = "failed"
    /\ UNCHANGED <<gnLevels, gnBands, gnLevel, gnInput, gnWarpedFrom,
                   gnWritten, gnOverviews>>
    /\ UNCHANGED notGnVars

\* the loop of generate ends
Generate_return ==
    /\ gnPc = "createOverview"
    /\ gnLevel = gnLevels
    /\ gnPc' = "done"
    /\ UNCHANGED <<gnLevels, gnBands, gnLevel, gnInput, gnWarpedFrom,
                   gnWritten, gnOverviews>>
    /\ UNCHANGED notGnVars

NextGenerate ==
    \/ Generate_createOverview
    \/ Generate_levelWritten
    \/ Generate_addOverview
    \/ Generate_throw
    \/ Generate_return

SpecGenerate == InitGenerate /\ [][NextGenerate]_vars

\* the levels a VRT lists as overviews of band b, in the order of the file
OverviewsOf(vrt, b) ==
    LET entries == gnOverviews[vrt]
        picked == SelectSeq(entries, LAMBDA e : e.band = b)
    IN  [k \in 1 .. Len(picked) |-> picked[k].source]

\* the levels 0 .. n-1 as a sequence of their VRT paths
LevelPaths(n) == [k \in 1 .. n |-> OvrPath(k - 1)]

\* the number of levels whose Overview entry has been added
Linked == gnLevel

\* C24 (as the code has it): the levels are built in the order 0 .. N-1,
\* level 0 warped from the base dataset VRT and level i from the ovr.vrt of
\* level i-1; an Overview entry is added only for a completely written
\* level, and every entry goes to the bands of the base dataset VRT, which
\* lists the linked levels in order for each band while no ovr.vrt lists
\* any overview; after a successful run the base dataset VRT lists all N
\* levels.
C24_OverviewsInDataset ==
    gnPc # "idle" =>
        /\ \A k \in 1 .. Len(gnWarpedFrom) :
              gnWarpedFrom[k] = IF k = 1 THEN DatasetPath ELSE OvrPath(k - 2)
        /\ \E n \in 0 .. gnLevels : gnWritten = {i \in LevelCounts : i < n}
        /\ \A v \in VrtPaths : \A k \in 1 .. Len(gnOverviews[v]) :
              \E i \in gnWritten : gnOverviews[v][k].source = OvrPath(i)
        /\ \A b \in 1 .. gnBands :
              OverviewsOf(DatasetPath, b) = LevelPaths(Linked)
        /\ \A i \in LevelCounts : gnOverviews[OvrPath(i)] = << >>
        /\ gnPc = "done" => Linked = gnLevels

\* generate returned after building at least two levels
C24_Witness ==
    /\ gnPc = "done"
    /\ gnLevels >= 2
    /\ gnBands >= 2
    /\ Len(gnOverviews[DatasetPath]) = gnLevels * gnBands

\* C24 (as stated): after a successful run the Overview entry of each level
\* is in the VRT the level was warped from, so that every level i < N-1
\* references level i+1 as its overview.
C24_ParentReferencesNext ==
    gnPc = "done" =>
        \A i \in 0 .. gnLevels - 1 : \A b \in 1 .. gnBands :
            \E k \in 1 .. Len(gnOverviews[gnWarpedFrom[i + 1]]) :
                gnOverviews[gnWarpedFrom[i + 1]][k] =
                    [band |-> b, source |-> OvrPath(i)]

(***************************************************************************)
(* resolveRoot and prependRoot: the relative path between two resources    *)
(***************************************************************************)

\* ResourceRoot::Depth
DepthValue == [referenceFrame |-> 0, interface |-> 1, group |-> 2, id |-> 3,
               none |-> 4]

Depths == {"referenceFrame", "interface", "group", "id", "none"}

\* a resource id together with the interface it is served under
Located == [referenceFrame : {"rf1", "rf2"}, iface : {"vts", "wmts"},
            group : {"g1", "g2"}, id : {"i1", "i2"}]

\* resolveRoot: the adjustment of the backup for the depth of the caller
adjustBackup(difference, thisDepth) ==
    IF DepthValue[thisDepth] < DepthValue[difference.depth]
    THEN [difference EXCEPT !.backup =
              @ - (DepthValue[difference.depth] - DepthValue[thisDepth])]
    ELSE difference

\* resolveRoot(thisResource, thisGeneratorIface, thatResource,
\*             thatGeneratorIface, thisDepth)
resolveRoot(this, that, thisDepth) ==
    LET difference ==
            IF this.referenceFrame # that.referenceFrame
            THEN [depth |-> "referenceFrame", backup |-> 4]
            ELSE IF this.iface # that.iface
            THEN [depth |-> "interface", backup |-> 3]
            ELSE IF this.group # that.group
            THEN [depth |-> "group", backup |-> 2]
            ELSE IF this.id # that.id
            THEN [depth |-> "id", backup |-> 1]
            ELSE [depth |-> "none", backup |-> 0]
    IN  adjustBackup(difference, thisDepth)

InitResolveRoot ==
    /\ rrThis \in Located
    /\ rrThat \in Located
    /\ rrDepth \in Depths
    /\ rrRoot = ResourceRoot_none
    /\ rrPath = << >>
    /\ rrPc = "resolveRoot"
    /\ IdleDiff
    /\ IdleLoad
    /\ IdleRt
    /\ IdleSv
    /\ IdlePg
    /\ IdleOv
    /\ IdleCov
    /\ IdleTi
    /\ IdleDm
    /\ IdleDd
    /\ IdleGn
    /\ IdleBs
    /\ IdleCt

ResolveRoot ==
    /\ rrPc = "resolveRoot"
    /\ rrRoot' = resolveRoot(rrThis, rrThat, rrDepth)
    /\ rrPc' = "prependRoot"
    /\ UNCHANGED <<rrThis, rrThat, rrDepth, rrPath>>
    /\ UNCHANGED notRrVars

PrependRoot ==
    /\ rrPc = "prependRoot"
    /\ rrPath' = prependRoot(<<"file">>,
                             [referenceFrame |-> rrThat.referenceFrame,
                              group |-> rrThat.group, id |-> rrThat.id],
                             rrThat.iface, rrRoot)
    /\ rrPc' = "done"
    /\ UNCHANGED <<rrThis, rrThat, rrDepth, rrRoot>>
    /\ UNCHANGED notRrVars

NextResolveRoot ==
    \/ ResolveRoot
    \/ PrependRoot

SpecResolveRoot == InitResolveRoot /\ [][NextResolveRoot]_vars

\* the directory of a resource: <referenceFrame>/<interface>/<group>/<id>
DirectoryOf(r) == <<r.referenceFrame, r.iface, r.group, r.id>>

\* where a relative path leads from a directory; "outside" when it climbs
\* above the top of the tree
RECURSIVE Follow(_, _)
Follow(dir, rel) ==
    IF rel = << >> THEN dir
    ELSE IF Head(rel) = "/" THEN Follow(dir, Tail(rel))
    ELSE IF Head(rel) = ".."
    THEN IF dir = << >> THEN <<"outside">>
         ELSE Follow(SubSeq(dir, 1, Len(dir) - 1), Tail(rel))
    ELSE Follow(Append(dir, Head(rel)), Tail(rel))

\* C25: the relative path prependRoot builds from the root resolveRoot
\* returns, followed from the directory of this resource at depth
\* thisDepth, arrives at the file in the directory of that resource, and
\* the backup count is never negative.
C25_RelativePathArrives ==
    rrPc = "done" =>
        /\ rrRoot.backup >= 0
        /\ Follow(SubSeq(DirectoryOf(rrThis), 1, DepthValue[rrDepth]), rrPath)
               = Append(DirectoryOf(rrThat), "file")

\* for a caller at the full depth of its resource the path arrives
FullDepthArrives ==
    (rrPc = "done" /\ rrDepth = "none") =>
        /\ rrRoot.backup >= 0
        /\ Follow(DirectoryOf(rrThis), rrPath)
               = Append(DirectoryOf(rrThat), "file")

(***************************************************************************)
(* buildDatasetBase: makeSetup, then the sources of the base dataset VRT   *)
(***************************************************************************)

\* pixel overlaps a wrapped dataset is configured with
Overlaps == {0, 1}

\* math::Extents2i as origin and size
Rect(x, y, size) == [x |-> x, y |-> y, width |-> size.width,
                     height |-> size.height]

\* the whole raster of the input (boost::none as source rectangle)
WholeSource(inSize) == Rect(0, 0, inSize)

\* the three sources of one band of a dataset wrapped in x
wrapSources(band, inSize, xPlus, shift) ==
    LET strip == Size2(xPlus, inSize.height)
        centerDst == Rect(xPlus, 0, inSize)
        rightSrc == Rect(inSize.width - xPlus - shift, 0, strip)
        leftDst == Rect(0, 0, Size2(xPlus, inSize.height))
        leftSrc == Rect(shift, 0, Size2(xPlus, inSize.height))
        rightDst == Rect(inSize.width + xPlus, 0, strip)
    IN  << [band |-> band, src |-> WholeSource(inSize), dst |-> centerDst],
           [band |-> band, src |-> rightSrc, dst |-> leftDst],
           [band |-> band, src |-> leftSrc, dst |-> rightDst] >>

\* the single source of one band of a dataset that is not wrapped
plainSources(band, inSize) ==
    << [band |-> band, src |-> WholeSource(inSize),
        dst |-> WholeSource(inSize)] >>

RECURSIVE addInputBands(_, _, _, _, _)
addInputBands(bands, inSize, wrapx, xPlus, shift) ==
    IF bands = 0 THEN << >>
    ELSE addInputBands(bands - 1, inSize, wrapx, xPlus, shift)
         \o (IF wrapx THEN wrapSources(bands, inSize, xPlus, shift)
             ELSE plainSources(bands, inSize))

InitDatasetBase ==
    /\ ovDs \in {Size2(w, h) : w \in 1 .. MaxSourceSize,
                               h \in {1, MaxSourceSize}}
    /\ ovConfig \in [minOvrSize : {Size2(w, w) : w \in 1 .. MaxMinOvrSize},
                     tileSize : {Size2(4, 3)},
                     wrapx : BOOLEAN]
    /\ ovSize = ovDs
    /\ ovSetup = NoSetup
    /\ ovPc = "start"
    /\ bsShift \in Overlaps
    /\ bsBands \in {1, 2}
    /\ bsSources = << >>
    /\ bsPc = "makeSetup"
    /\ IdleDiff
    /\ IdleLoad
    /\ IdleRt
    /\ IdleSv
    /\ IdlePg
    /\ IdleCov
    /\ IdleTi
    /\ IdleDm
    /\ IdleDd
    /\ IdleGn
    /\ IdleRr
    /\ IdleCt

\* buildDatasetBase after makeSetup returned: the output VRT is created
\* and the sources of every input band are added, then it is flushed
BuildDatasetBase_sources ==
    /\ bsPc = "makeSetup"
    /\ ovPc = "done"
    /\ bsSources' = addInputBands(bsBands, ovDs, ovConfig.wrapx,
                                  ovSetup.xPlus, bsShift)
    /\ bsPc' = "flushed"
    /\ UNCHANGED <<bsShift, bsBands>>
    /\ UNCHANGED notBsVars

NextDatasetBase ==
    \/ MakeSetup_begin
    \/ MakeSetup_level
    \/ MakeSetup_exit
    \/ MakeSetup_plain
    \/ MakeSetup_wrapx
    \/ BuildDatasetBase_sources

SpecDatasetBase == InitDatasetBase /\ [][NextDatasetBase]_vars

\* the columns a rectangle covers
Columns(r) == r.x .. (r.x + r.width - 1)

\* the sources of one band
SourcesOf(band) == SelectSeq(bsSources, LAMBDA s : s.band = band)

\* the destination rectangles of a wrapped band cover the widened width
\* exactly once
DestinationsTile ==
    (bsPc = "flushed" /\ ovConfig.wrapx) =>
        \A b \in 1 .. bsBands :
            LET srcs == SourcesOf(b) IN
            /\ Len(srcs) = 3
            /\ \A c \in 0 .. ovSetup.size.width - 1 :
                  Cardinality({k \in 1 .. 3 : c \in Columns(srcs[k].dst)}) = 1
            /\ \A k \in 1 .. 3 :
                  Columns(srcs[k].dst) \subseteq 0 .. ovSetup.size.width - 1

\* C26: with wrapx configured the three sources of every band have
\* destination rectangles that cover the widened base width exactly once,
\* and the source rectangles of both wrap strips lie inside the source
\* raster.
C26_WrapSourcesInside ==
    (bsPc = "flushed" /\ ovConfig.wrapx) =>
        /\ DestinationsTile
        /\ \A k \in 1 .. Len(bsSources) :
              Columns(bsSources[k].src) \subseteq 0 .. ovDs.width - 1

\* the pixels of a rectangle
Pixels(r) ==
    {<<x, y>> : x \in r.origin.x .. (r.origin.x + r.size.width - 1),
                y \in r.origin.y .. (r.origin.y + r.size.height - 1)}

\* the smallest k with k * d >= n
CeilDiv(n, d) == CHOOSE k \in 0 .. n : (k - 1) * d < n /\ n <= k * d

\* the destination rectangle of tile i of the level
TileRect(i) == drect(covLevel, tileOf(covLevel, i))

\* C27: the destination rectangles of the tile grid of a level are pairwise
\* disjoint, each of positive size not larger than tileSize, and together
\* cover exactly [0, width) x [0, height); there are
\* ceil(width / tileW) * ceil(height / tileH) tiles, and every stored tile
\* is mapped into the VRT at its rectangle.
C27_TileGridPartitions ==
    covPc \in {"tiles", "flushed"} =>
        LET idx == tileIndices(covLevel)
            ts == covLevel.tileSize
        IN  /\ Cardinality(idx) = CeilDiv(covLevel.size.width, ts.width)
                                    * CeilDiv(covLevel.size.height, ts.height)
            /\ \A i \in idx :
                  /\ TileRect(i).size.width \in 1 .. ts.width
                  /\ TileRect(i).size.height \in 1 .. ts.height
                  /\ TileRect(i).origin =
                        [x |-> (i % CeilDiv(covLevel.size.width, ts.width))
                                   * ts.width,
                         y |-> (i \div CeilDiv(covLevel.size.width, ts.width))
                                   * ts.height]
            /\ \A i, j \in idx :
                  i # j => Pixels(TileRect(i)) \cap Pixels(TileRect(j)) = {}
            /\ UNION {Pixels(TileRect(i)) : i \in idx}
                   = {<<x, y>> : x \in 0 .. covLevel.size.width - 1,
                                 y \in 0 .. covLevel.size.height - 1}
            /\ \A i \in idx : \A k \in 1 .. Len(covTile[i].sources) :
                  covTile[i].sources[k].dst = TileRect(i)

\* a level with a remainder column and a remainder row whose tiles were all
\* stored
C27_Witness ==
    /\ covPc = "flushed"
    /\ covLevel.size = Size2(3, 4)
    /\ covLevel.tileSize = Size2(2, 2)
    /\ \A i \in tileIndices(covLevel) : covTile[i].written = 1
    /\ TileRect(3).size = Size2(1, 2)

(***************************************************************************)
(* Termination of makeSetup                                                *)
(***************************************************************************)

\* makeSetup runs on: a call that can take a step takes it
SpecOverviewFair == SpecOverview /\ WF_vars(NextOverview)

\* C30: makeSetup returns for every source size of at least 1x1 and every
\* minOvrSize of at least 1 in each dimension, and it never lists more
\* levels than the larger dimension of the source has pixels.
C30_MakeSetupTerminates ==
    /\ [](ovPc # "idle" =>
             Len(ovSetup.ovrSizes) <= Max(ovDs.width, ovDs.height))
    /\ <>(ovPc = "done")

\* makeSetup returned after a dimension stayed at its fixed point 1 over
\* several levels
C30_Witness ==
    /\ ovPc = "done"
    /\ ~ ovConfig.wrapx
    /\ Len(ovSetup.ovrSizes) >= 3
    /\ \A i \in 1 .. Len(ovSetup.ovrSizes) : ovSetup.ovrSizes[i].width = 1

(***************************************************************************)
(* Daemon::ctrl: the commands of the control socket                        *)
(***************************************************************************)

\* the most arguments a command is given here
MaxArgs == 6

\* argument texts: a number, a boolean, a name
ArgTexts == {"7", "true", "melown"}

CtrlCommands == {"list-resources", "update-resources", "updated-since",
                 "supports-reference-frame", "has-resource",
                 "is-resource-ready", "resource-url", "help", "bogus"}

NoReply == [error |-> FALSE, line |-> ""]

\* sendBoolean
sendBoolean(value) == [error |-> FALSE,
                       line |-> IF value THEN "true" ELSE "false"]

\* os << "error: ..."
sendError(text) == [error |-> TRUE, line |-> text]

\* boost::lexical_cast<std::uint64_t> succeeds
isNumber(text) == text = "7"

\* parseBoolean returns
isBoolean(text) == text = "true"

InitCtrl ==
    /\ \E cmd \in CtrlCommands, n \in {0, 1, 2, 3, 4, 5, MaxArgs} :
          \E args \in [1 .. n -> ArgTexts] :
              /\ n >= 2 => \A k \in 3 .. n : args[k] = args[2]
              /\ ctCmd = [cmd |-> cmd, args |-> args]
    /\ ctReply = NoReply
    /\ ctRead = {}
    /\ ctUpdates = 0
    /\ ctOutcome = "called"
    /\ IdleDiff
    /\ IdleLoad
    /\ IdleRt
    /\ IdleSv
    /\ IdlePg
    /\ IdleOv
    /\ IdleCov
    /\ IdleTi
    /\ IdleDm
    /\ IdleDd
    /\ IdleGn
    /\ IdleRr
    /\ IdleBs

\* list-resources, help and commands ctrl does not know
Ctrl_noArguments ==
    /\ ctOutcome = "called"
    /\ ctCmd.cmd \in {"list-resources", "help", "bogus"}
    /\ ctReply' = IF ctCmd.cmd = "bogus" THEN NoReply
                  ELSE [error |-> FALSE, line |-> ctCmd.cmd]
    /\ ctOutcome' = IF ctCmd.cmd = "bogus" THEN "false" ELSE "true"
    /\ UNCHANGED <<ctCmd, ctRead, ctUpdates>>
    /\ UNCHANGED notCtVars

\* update-resources
Ctrl_updateResources ==
    /\ ctOutcome = "called"
    /\ ctCmd.cmd = "update-resources"
    /\ ctUpdates' = ctUpdates + 1
    /\ ctReply' = [error |-> FALSE, line |-> "resource updater notified"]
    /\ ctOutcome' = "true"
    /\ UNCHANGED <<ctCmd, ctRead>>
    /\ UNCHANGED notCtVars

\* updated-since: the switch over cmd.args.size()
Ctrl_updatedSince ==
    /\ ctOutcome = "called"
    /\ ctCmd.cmd = "updated-since"
    /\ LET args == ctCmd.args
           n == Len(args)
       IN IF n \notin {1, 4, 5}
          THEN /\ ctReply' = sendError("updated-since expects 1, 4 or 5 argument")
               /\ ctOutcome' = "true"
               /\ UNCHANGED ctRead
          ELSE \/ /\ ~ isNumber(args[1])
                  /\ ctReply' = sendError("argument is not a number")
                  /\ ctOutcome' = "true"
                  /\ \E read \in SUBSET (0 .. n - 1) :
                        /\ 0 \in read
                        /\ 4 \notin read
                        /\ ctRead' = read
               \/ /\ n = 5
                  /\ ~ isBoolean(args[5])
                  /\ ctReply' = NoReply
                  /\ ctOutcome' = "std::runtime_error"
                  /\ \E read \in SUBSET (0 .. n - 1) :
                        /\ 4 \in read
                        /\ ~ isNumber(args[1]) => 0 \notin read
                        /\ ctRead' = read
               \/ /\ isNumber(args[1])
                  /\ n = 5 => isBoolean(args[5])
                  /\ \E value \in BOOLEAN : ctReply' = sendBoolean(value)
                  /\ ctOutcome' = "true"
                  /\ ctRead' = 0 .. n - 1
    /\ UNCHANGED <<ctCmd, ctUpdates>>
    /\ UNCHANGED notCtVars

\* supports-reference-frame: cmd.args[0] is read whatever the size of
\* cmd.args; on an empty vector the read is undefined
Ctrl_supportsReferenceFrame ==
    /\ ctOutcome = "called"
    /\ ctCmd.cmd = "supports-reference-frame"
    /\ ctRead' = {0}
    /\ \/ /\ \E value \in BOOLEAN : ctReply' = sendBoolean(value)
          /\ ctOutcome' = "true"
       \/ /\ Len(ctCmd.args) = 0
          /\ ctReply' = NoReply
          /\ ctOutcome' = "crashed"
    /\ UNCHANGED <<ctCmd, ctUpdates>>
    /\ UNCHANGED notCtVars

\* has-resource, is-resource-ready and resource-url
Ctrl_resource ==
    /\ ctOutcome = "called"
    /\ ctCmd.cmd \in {"has-resource", "is-resource-ready", "resource-url"}
    /\ IF Len(ctCmd.args) # 3
       THEN /\ ctReply' = sendError("expects 3 arguments")
            /\ UNCHANGED ctRead
       ELSE /\ ctRead' = {0, 1, 2}
            /\ IF ctCmd.cmd = "resource-url"
               THEN ctReply' = [error |-> FALSE, line |-> "url"]
               ELSE \E value \in BOOLEAN : ctReply' = sendBoolean(value)
    /\ ctOutcome' = "true"
    /\ UNCHANGED <<ctCmd, ctUpdates>>
    /\ UNCHANGED notCtVars

NextCtrl ==
    \/ Ctrl_noArguments
    \/ Ctrl_updateResources
    \/ Ctrl_updatedSince
    \/ Ctrl_supportsReferenceFrame
    \/ Ctrl_resource

SpecCtrl == InitCtrl /\ [][NextCtrl]_vars

\* the argument counts the commands that read arguments are documented with
ExpectedCounts ==
    [c \in CtrlCommands |->
        IF c \in {"has-resource", "is-resource-ready", "resource-url"}
        THEN {3}
        ELSE IF c = "updated-since" THEN {1, 4, 5}
        ELSE IF c = "supports-reference-frame" THEN {1}
        ELSE 0 .. MaxArgs]

\* a wrong count was answered with an error line, no argument was read and
\* nothing was asked of the generators
WrongCountRefused ==
    /\ ctOutcome = "true"
    /\ ctReply.error
    /\ ctRead = {}
    /\ ctUpdates = 0

\* C29: every command that reads positional arguments answers a wrong
\* argument count with an error line before reading any argument and
\* leaves the server as it was.
C29_ArgumentCountValidated ==
    (ctOutcome \notin {"idle", "called"}
        /\ Len(ctCmd.args) \notin ExpectedCounts[ctCmd.cmd])
    => WrongCountRefused

\* every command but supports-reference-frame refuses a wrong count, and
\* no command but it reads beyond the arguments given
ValidatedButSupportsReferenceFrame ==
    (ctOutcome \notin {"idle", "called"}
        /\ ctCmd.cmd # "supports-reference-frame")
    => /\ Len(ctCmd.args) \notin ExpectedCounts[ctCmd.cmd]
            => WrongCountRefused
       /\ \A k \in ctRead : k < Len(ctCmd.args)

====
